---- MODULE Spec2Model ----
(***************************************************************************)
(* The after-read field pipeline of                                        *)
(* packages/payload/src/fields/hooks/afterRead/promise.ts.                 *)
(*                                                                         *)
(* promise() is an async function: it runs synchronously up to an await,   *)
(* is suspended there, and is resumed later.  The model keeps a call stack *)
(* of the synchronously running calls (stack) and one record per promise() *)
(* call (tasks) holding its position (pc).  A suspended call is resumed    *)
(* only when the stack is empty, as on a single-threaded event loop.       *)
(***************************************************************************)
EXTENDS Integers, Sequences, FiniteSets, TLC

(***************************************************************************)
(* JavaScript values.  "absent" is a key that is not in the object,        *)
(* "undef" a key that is present and holds undefined.                      *)
(***************************************************************************)
Val(k, s, n, rows) == [k |-> k, s |-> s, n |-> n, rows |-> rows]
Absent == Val("absent", "", 0, <<>>)
Undef == Val("undef", "", 0, <<>>)
Null == Val("null", "", 0, <<>>)
Str(s) == Val("str", s, 0, <<>>)
Num(n) == Val("num", "", n, <<>>)
False == Val("bool", "false", 0, <<>>)
Obj(id) == Val("obj", "", id, <<>>)
Arr(rows) == Val("arr", "", 0, rows)

\* typeof v === 'undefined'
TypeofUndefined(v) == v.k \in {"absent", "undef"}
\* typeof v === 'object'
TypeofObject(v) == v.k \in {"null", "obj", "arr"}
\* Array.isArray(v)
IsArray(v) == v.k = "arr"
\* v !== undefined
Defined(v) == ~TypeofUndefined(v)
\* if (v)
Truthy(v) ==
  CASE v.k = "str" -> v.s # ""
    [] v.k = "num" -> v.n # 0
    [] v.k = "bool" -> v.s = "true"
    [] v.k \in {"obj", "arr"} -> TRUE
    [] OTHER -> FALSE

Locales == <<"en", "de">>
FieldNames ==
  {"title", "ltitle", "meta", "inner", "items", "label", "layout", "heading",
   "seo", "desc", "sub", "body", "author", "other", "lname", "lcount",
   "secret", "loc", "lbody", "litems"}
Keys == FieldNames \cup {"en", "de", "blockType", "coordinates", "type"}
KeyOrder ==
  <<"title", "ltitle", "meta", "inner", "items", "label", "layout", "heading",
    "seo", "desc", "sub", "body", "author", "other", "lname", "lcount",
    "secret", "loc", "lbody", "litems", "en", "de", "blockType", "coordinates",
    "type">>

\* {}
EmptyObj == [key \in Keys |-> Absent]
\* { ...EmptyObj, [key]: v }
With(o, key, v) == [o EXCEPT ![key] = v]

(***************************************************************************)
(* Bounds of the model.                                                    *)
(***************************************************************************)
\* rows of an array or blocks value in the initial document
MaxRows == 2
\* resetPassword calls made
MaxCalls == 2
\* the last value of the clock (Date.now())
MaxTime == 1

(***************************************************************************)
(* The user the password is reset for, as stored: the token was issued and *)
(* is valid while the clock is before TokenExpiration.                     *)
(***************************************************************************)
TokenExpiration == MaxTime
StoredUser ==
  [resetPasswordToken |-> "t1", resetPasswordExpiration |-> TokenExpiration,
   password |-> "old"]
\* no resetPassword call has been made
NoReset ==
  [now |-> 0, user |-> StoredUser, calls |-> <<>>, beforeResetPassword |-> FALSE,
   afterResetPassword |-> FALSE, res |-> FALSE]

(***************************************************************************)
(* The field schema (Args.field).  A field is known by an id; name = ""    *)
(* is a field without a name (tabs, an unnamed tab).  The entries of       *)
(* field.tabs have no type of their own ("untyped").                       *)
(***************************************************************************)
FieldIds == FieldNames \cup {"tabsF", "plainTab", "rowF", "collF"}
RefTypes == {"relationship", "upload", "join"}

Field(name, type) ==
  [name |-> name, type |-> type, localized |-> FALSE, hidden |-> FALSE,
   hooks |-> <<>>, access |-> FALSE, dflt |-> Undef, fields |-> <<>>,
   blocks |-> <<>>, editor |-> "none", editorHooks |-> <<>>]

\* The configuration of the field a scenario is about.
Configured(f, o) ==
  [f EXCEPT !.hooks = o.hooks, !.access = o.access, !.dflt = o.dflt]

\* field.hooks.afterRead of the scenario's field: h1 returns 'a' and h2
\* returns value.toUpperCase(); "any" is a hook of unknown result.
HookLists == {<<>>, <<"retA", "upper">>, <<"any">>}
DefaultValues == {Undef, Str("d")}
Editors == {"ok", "missing", "function"}
Opts ==
  [hooks : HookLists, access : BOOLEAN, dflt : DefaultValues,
   editor : {"ok"}, refType : {"relationship"}]
OptsFor(sc) ==
  CASE sc = "ltext" ->
         [hooks : HookLists, access : {FALSE}, dflt : DefaultValues,
          editor : {"ok"}, refType : {"relationship"}]
    [] sc \in {"lfall", "lrich", "larray"} ->
         [hooks : {<<>>}, access : {FALSE}, dflt : {Undef},
          editor : {"ok"}, refType : {"relationship"}]
    [] sc = "point" ->
         [hooks : {<<>>, <<"retA", "upper">>}, access : BOOLEAN, dflt : DefaultValues,
          editor : {"ok"}, refType : {"relationship"}]
    [] sc = "richText" ->
         [hooks : HookLists, access : BOOLEAN, dflt : DefaultValues,
          editor : Editors, refType : {"relationship"}]
    [] sc = "rel" ->
         [hooks : HookLists, access : BOOLEAN, dflt : DefaultValues,
          editor : {"ok"}, refType : RefTypes]
    [] sc = "group" ->
         \* also a hook that replaces the group's value with another object
         [hooks : HookLists \cup {<<"retObj">>}, access : BOOLEAN,
          dflt : DefaultValues, editor : {"ok"}, refType : {"relationship"}]
    [] OTHER -> Opts

Schema(o) ==
  [id \in FieldIds |->
    CASE id = "title" -> Configured(Field("title", "text"), o)
      [] id = "ltitle" ->
           [Configured(Field("ltitle", "text"), o) EXCEPT !.localized = TRUE]
      [] id = "meta" ->
           [Configured(Field("meta", "group"), o) EXCEPT !.fields = <<"inner">>]
      [] id = "inner" ->
           [Field("inner", "text") EXCEPT !.hooks = <<"retA">>, !.dflt = Str("d")]
      [] id = "items" ->
           [Configured(Field("items", "array"), o) EXCEPT !.fields = <<"label">>]
      [] id = "label" -> [Field("label", "text") EXCEPT !.hooks = <<"retA">>]
      [] id = "layout" ->
           [Configured(Field("layout", "blocks"), o) EXCEPT
              !.blocks = <<[slug |-> "hero", fields |-> <<"heading">>]>>]
      [] id = "heading" -> [Field("heading", "text") EXCEPT !.dflt = Str("d")]
      [] id = "tabsF" ->
           [Field("", "tabs") EXCEPT !.fields = <<"seo", "plainTab">>]
      [] id = "seo" ->
           [Configured(Field("seo", "untyped"), o) EXCEPT !.fields = <<"desc">>]
      [] id = "desc" -> [Field("desc", "text") EXCEPT !.hooks = <<"retA">>]
      [] id = "plainTab" -> [Field("", "untyped") EXCEPT !.fields = <<"sub">>]
      [] id = "sub" -> [Field("sub", "text") EXCEPT !.dflt = Str("d")]
      [] id = "body" ->
           [Configured(Field("body", "richText"), o) EXCEPT
              !.editor = o.editor, !.editorHooks = <<"any">>]
      [] id = "author" -> Configured(Field("author", o.refType), o)
      [] id = "lname" -> [Field("lname", "textarea") EXCEPT !.localized = TRUE]
      [] id = "lcount" -> [Field("lcount", "number") EXCEPT !.localized = TRUE]
      [] id = "secret" -> [Configured(Field("secret", "text"), o) EXCEPT !.hidden = TRUE]
      [] id = "loc" -> Configured(Field("loc", "point"), o)
      [] id = "lbody" ->
           [Field("lbody", "richText") EXCEPT
              !.localized = TRUE, !.editor = "ok",
              !.editorHooks = <<"retA", "upper">>]
      [] id = "litems" ->
           [Field("litems", "array") EXCEPT !.localized = TRUE, !.fields = <<"label">>]
      [] id = "rowF" -> [Field("", "row") EXCEPT !.fields = <<"collF">>]
      [] id = "collF" -> [Field("", "collapsible") EXCEPT !.fields = <<"title">>]
      [] OTHER -> [Field("other", "text") EXCEPT !.hooks = <<"retA">>]]

\* fieldAffectsData(field)
fieldAffectsData(f) == f.name # ""
\* tabHasName(tab)
tabHasName(f) == f.name # ""

(***************************************************************************)
(* The documents read: per scenario the top-level fields and the stored    *)
(* document (object 1 is Args.doc, the top-level sibling container).       *)
(***************************************************************************)
Scenarios ==
  {"text", "ltext", "lfall", "lrich", "hidden", "point", "group", "array",
   "blocks", "tabs", "richText", "rel", "larray", "row"}

Top(sc) ==
  CASE sc = "text" -> <<"title">>
    [] sc = "ltext" -> <<"ltitle">>
    [] sc = "lfall" -> <<"lname", "lcount">>
    [] sc = "lrich" -> <<"lbody">>
    [] sc = "hidden" -> <<"secret">>
    [] sc = "point" -> <<"loc">>
    [] sc = "group" -> <<"meta">>
    [] sc = "array" -> <<"items">>
    [] sc = "blocks" -> <<"layout">>
    [] sc = "tabs" -> <<"tabsF">>
    [] sc = "richText" -> <<"body">>
    [] sc = "larray" -> <<"litems">>
    [] sc = "row" -> <<"rowF">>
    [] OTHER -> <<"author", "other">>

\* the row objects 2 .. MaxRows + 1 of an array or blocks value
RowIds == [i \in 1..MaxRows |-> i + 1]
ArrayRow(i) == IF i = 1 THEN With(EmptyObj, "label", Str("x")) ELSE EmptyObj
BlocksRow(i) ==
  IF i = 2
    THEN With(With(EmptyObj, "blockType", Str("hero")), "heading", Str("x"))
    ELSE With(EmptyObj, "blockType", Str("unknown"))

\* The stored values of a point field: a GeoJSON point, partial or malformed
\* geometry, and values of another type.  The elements of a coordinates
\* array are numbers.
PointDocs ==
  {<<With(EmptyObj, "type", Str("Point"))>>} \cup
  {<<With(With(EmptyObj, "coordinates", c), "type", Str("Point"))>> :
     c \in {Arr(<<1, 2>>), Arr(<<1>>), Arr(<<1, 2, 3>>), Str("x"), Null}}

\* The stored documents of a scenario: heaps, object 1 the document.
Docs(sc) ==
  CASE sc = "text" ->
         {<<With(EmptyObj, "title", v)>> : v \in {Absent, Null, Str("x")}}
    [] sc = "ltext" ->
         {<<With(EmptyObj, "ltitle", Obj(2)),
            With(With(EmptyObj, "en", e), "de", Str("y"))>> :
              e \in {Str("x"), Str(""), Absent}}
         \cup {<<With(EmptyObj, "ltitle", v)>> : v \in {Absent, Null}}
    [] sc = "lfall" ->
         \* a textarea and a number field that hold the same locale map
         {<<With(With(EmptyObj, "lname", Obj(2)), "lcount", Obj(3)),
            With(With(EmptyObj, "en", e), "de", d),
            With(With(EmptyObj, "en", e), "de", d)>> :
              e \in {Str("x"), Str(""), Null, Absent},
              d \in {Str("y"), Str(""), Absent}}
    [] sc = "lrich" ->
         {<<With(EmptyObj, "lbody", Obj(2)),
            With(With(EmptyObj, "en", Str("x")), "de", Str("y"))>>,
          <<With(EmptyObj, "lbody", Str("x"))>>,
          <<With(EmptyObj, "lbody", Null)>>}
    [] sc = "hidden" ->
         {<<With(EmptyObj, "secret", v)>> : v \in {Absent, Str("x")}}
    [] sc = "point" ->
         {<<With(EmptyObj, "loc", Obj(2))>> \o p : p \in PointDocs}
         \cup {<<With(EmptyObj, "loc", v)>> : v \in {Absent, Null, Str("x")}}
    [] sc = "group" ->
         \* object 3 is not part of the document: it is the object HookObject
         {<<With(EmptyObj, "meta", v), With(EmptyObj, "inner", Str("x")),
            With(EmptyObj, "inner", Str("n"))>> : v \in {Obj(2), Null, Absent}}
    [] sc = "array" ->
         {<<With(EmptyObj, "items", Arr(RowIds))>> \o [i \in 1..MaxRows |-> ArrayRow(i)],
          <<With(EmptyObj, "items", Null)>>,
          <<With(EmptyObj, "items", Str("x"))>>,
          <<With(EmptyObj, "items", Absent)>>}
    [] sc = "blocks" ->
         {<<With(EmptyObj, "layout", Arr(RowIds))>> \o [i \in 1..MaxRows |-> BlocksRow(i)],
          \* rows [hero, null]
          <<With(EmptyObj, "layout", Arr(<<2, 0>>)), BlocksRow(2)>>,
          <<With(EmptyObj, "layout", Null)>>,
          <<With(EmptyObj, "layout", Absent)>>}
    [] sc = "tabs" ->
         {<<With(With(EmptyObj, "seo", Obj(2)), "sub", Str("x")),
            With(EmptyObj, "desc", Str("x"))>>,
          <<With(EmptyObj, "seo", Absent)>>}
    [] sc = "richText" ->
         {<<With(EmptyObj, "body", v)>> : v \in {Absent, Str("x")}}
    [] sc = "larray" ->
         \* a locale map whose entries are arrays of one row, or not arrays
         {<<With(EmptyObj, "litems", Obj(2)),
            With(With(EmptyObj, "en", Arr(<<3>>)), "de", d),
            ArrayRow(1), ArrayRow(2)>> : d \in {Arr(<<4>>), Str("x"), Absent}}
    [] sc = "row" ->
         {<<With(EmptyObj, "title", v)>> : v \in {Absent, Str("x")}}
    [] OTHER ->
         {<<With(With(EmptyObj, "author", v), "other", Str("x"))>> :
            v \in {Absent, Str("id")}}

\* Args.flattenLocales, Args.locale, Args.fallbackLocale and
\* req.payload.config.localization
LocaleArgs(sc) ==
  CASE sc = "ltext" ->
         [flattenLocales : BOOLEAN, locale : {"en", "all"},
          fallbackLocale : {"none", "de"}, localization : BOOLEAN]
    [] sc = "lfall" ->
         [flattenLocales : {TRUE}, locale : {"en"},
          fallbackLocale : {"none", "de", "en"}, localization : {TRUE}]
    [] sc = "lrich" ->
         [flattenLocales : BOOLEAN, locale : {"en", "all"},
          fallbackLocale : {"none"}, localization : {TRUE}]
    [] sc = "larray" ->
         [flattenLocales : BOOLEAN, locale : {"en"},
          fallbackLocale : {"none"}, localization : {TRUE}]
    [] OTHER ->
         [flattenLocales : {TRUE}, locale : {"en"}, fallbackLocale : {"none"},
          localization : {TRUE}]

\* Args.triggerHooks, Args.triggerAccessControl and Args.overrideAccess
AccessArgs(sc) ==
  CASE sc = "ltext" ->
         [triggerHooks : BOOLEAN, triggerAccessControl : {TRUE},
          overrideAccess : {FALSE}]
    [] sc \in {"lfall", "lrich", "larray"} ->
         [triggerHooks : {TRUE}, triggerAccessControl : {TRUE},
          overrideAccess : {FALSE}]
    [] sc \in {"hidden", "point", "row"} ->
         [triggerHooks : BOOLEAN, triggerAccessControl : {TRUE},
          overrideAccess : {FALSE}]
    [] OTHER ->
         [triggerHooks : BOOLEAN, triggerAccessControl : BOOLEAN,
          overrideAccess : BOOLEAN]

\* Args.showHiddenFields
HiddenArgs(sc) == IF sc = "hidden" THEN BOOLEAN ELSE {FALSE}

VARIABLES
  args,            \* the arguments of the read: flags, schema, top-level fields
  heap,            \* the document: a sequence of objects, heap[1] is Args.doc
  tasks,           \* one record per promise() call, in call order
  stack,           \* the calls that are running synchronously, innermost last
  fieldPromises,   \* Args.fieldPromises
  populationPromises, \* Args.populationPromises
  pops,            \* the population tasks created (relationshipPopulationPromise calls)
  callerPc,        \* the position of the caller of the traversal
  reset            \* the resetPassword calls, the stored user and the clock

vars ==
  <<args, heap, tasks, stack, fieldPromises, populationPromises, pops, callerPc,
    reset>>

Init ==
  \E sc \in Scenarios :
    \E o \in OptsFor(sc), d \in Docs(sc), l \in LocaleArgs(sc), a \in AccessArgs(sc),
       show \in HiddenArgs(sc) :
      /\ args = [scenario |-> sc, schema |-> Schema(o), top |-> Top(sc),
                 triggerHooks |-> a.triggerHooks,
                 triggerAccessControl |-> a.triggerAccessControl,
                 overrideAccess |-> a.overrideAccess, showHiddenFields |-> show,
                 flattenLocales |-> l.flattenLocales, locale |-> l.locale,
                 fallbackLocale |-> l.fallbackLocale,
                 localization |-> l.localization]
      /\ heap = d
      /\ tasks = <<>>
      /\ stack = <<>>
      /\ fieldPromises = <<>>
      /\ populationPromises = <<>>
      /\ pops = <<>>
      /\ callerPc = "start"
      /\ reset = NoReset

(***************************************************************************)
(* Helpers on the state.                                                   *)
(***************************************************************************)
\* the field of promise() call t (Args.field)
\* the tab is handed on as it is in field.tabs
AsTab_Untyped(f) == f

\* line 575: { ...tab, type: 'tab' }
AsTab(f) == [f EXCEPT !.type = "tab"]

FieldOf(t) ==
  IF tasks[t].asTab THEN AsTab(args.schema[tasks[t].f]) ELSE args.schema[tasks[t].f]
\* siblingDoc[name] as stored: Absent when the key is not there.  Object 0
\* is no object.
Stored(h, sib, name) == IF name = "" \/ sib = 0 THEN Absent ELSE h[sib][name]
\* the value the expression siblingDoc[name] evaluates to
Read(h, sib, name) ==
  IF Stored(h, sib, name).k = "absent" THEN Undef ELSE Stored(h, sib, name)
\* siblingDoc[name] = v
Write(h, sib, name, v) ==
  IF name = "" \/ sib = 0 THEN h ELSE [h EXCEPT ![sib][name] = v]
\* the container is emptied
Delete_Everything(h, sib, name) == IF sib = 0 THEN h ELSE [h EXCEPT ![sib] = EmptyObj]

\* delete siblingDoc[name]
Delete(h, sib, name) == Write(h, sib, name, Absent)
\* value[key] for a value that may be an object
Get(h, v, key) ==
  IF v.k = "obj" /\ h[v.n][key].k # "absent" THEN h[v.n][key] ELSE Undef
\* siblingDoc[field.name] of call t
Slot(t) == Read(heap, tasks[t].sib, FieldOf(t).name)

Top1 == stack[Len(stack)]
Pop == SubSeq(stack, 1, Len(stack) - 1)
Idle == stack = <<>>
\* call t is the one running now, at position pc
At(t, pc) ==
  /\ stack # <<>>
  /\ Top1.k = "promise"
  /\ Top1.t = t
  /\ tasks[t].pc = pc
Frame(k, t, fields, sib) ==
  [k |-> k, t |-> t, fields |-> fields, i |-> 1, sib |-> sib, phase |-> "call",
   path |-> <<>>, schemaPath |-> <<>>, asTab |-> FALSE]
\* a traverseFields call with its path and schemaPath arguments
TraverseFrame(t, fields, sib, path, schemaPath) ==
  [Frame("traverse", t, fields, sib) EXCEPT !.path = path, !.schemaPath = schemaPath]
PromiseFrame(t) == Frame("promise", t, <<>>, 0)

\* a promise() call that has just been made
NewTask(f, sib, parent) ==
  [f |-> f, sib |-> sib, parent |-> parent, pc |-> "hidden", hi |-> 0,
   inflight |-> {}, arg |-> <<>>, allow |-> TRUE, hoisted |-> FALSE,
   work |-> <<>>,
   \* what the call has done so far
   log |-> <<>>, hookLog |-> <<>>, accessInvoked |-> FALSE, denied |-> FALSE,
   defaultInvoked |-> FALSE, removed |-> FALSE, seen |-> Absent,
   \* where the call that issued this one stood, and the hooks it had run
   parentPc |-> IF parent = 0 THEN "none" ELSE tasks[parent].pc,
   parentHooks |-> IF parent = 0 THEN 0 ELSE Len(tasks[parent].hookLog),
   \* siblingDoc[field.name] when the call was made
   entry |-> Read(heap, sib, args.schema[f].name),
   \* the parentPath, parentSchemaPath and fieldIndex arguments
   parentPath |-> <<>>, parentSchemaPath |-> <<>>, fieldIndex |-> 0,
   \* the field is an entry of field.tabs
   asTab |-> FALSE]

Logged(r, step) == [r EXCEPT !.log = Append(@, step)]
Settled(t) == tasks[t].pc \in {"done", "rejected"}

(***************************************************************************)
(* The caller and traverseFields: every field of the list is handed to     *)
(* promise(), and the promise it returns is appended to fieldPromises.     *)
(***************************************************************************)
Start ==
  /\ callerPc = "start"
  /\ callerPc' = "traverse"
  /\ stack' = <<Frame("caller", 0, <<>>, 0),
                TraverseFrame(0, args.top, 1, <<>>, <<>>)>>
  /\ UNCHANGED <<args, reset, heap, tasks, fieldPromises, populationPromises, pops>>

TraverseCall ==
  /\ stack # <<>>
  /\ Top1.k = "traverse"
  /\ Top1.phase = "call"
  /\ Top1.i <= Len(Top1.fields)
  /\ tasks' = Append(tasks, [NewTask(Top1.fields[Top1.i], Top1.sib, Top1.t) EXCEPT
                               !.parentPath = Top1.path,
                               !.parentSchemaPath = Top1.schemaPath,
                               !.fieldIndex = Top1.i - 1,
                               !.asTab = Top1.asTab])
  /\ stack' = Append([stack EXCEPT ![Len(stack)].phase = "push"],
                     PromiseFrame(Len(tasks) + 1))
  /\ UNCHANGED <<args, reset, heap, fieldPromises, populationPromises, pops, callerPc>>

TraversePush ==
  /\ stack # <<>>
  /\ Top1.k = "traverse"
  /\ Top1.phase = "push"
  /\ fieldPromises' = Append(fieldPromises, [kind |-> "field", id |-> Len(tasks)])
  /\ stack' = [stack EXCEPT ![Len(stack)].phase = "call", ![Len(stack)].i = @ + 1]
  /\ UNCHANGED <<args, reset, heap, tasks, populationPromises, pops, callerPc>>

TraverseReturn ==
  /\ stack # <<>>
  /\ Top1.k = "traverse"
  /\ Top1.phase = "call"
  /\ Top1.i > Len(Top1.fields)
  /\ stack' = Pop
  /\ UNCHANGED <<args, reset, heap, tasks, fieldPromises, populationPromises, pops, callerPc>>

\* await Promise.all(fieldPromises)
CallerAwaitFields ==
  /\ stack # <<>>
  /\ Top1.k = "caller"
  /\ stack' = Pop
  /\ callerPc' = "awaitFields"
  /\ UNCHANGED <<args, reset, heap, tasks, fieldPromises, populationPromises, pops>>

\* the hook promises have settled: await Promise.all(populationPromises)
CallerAwaitPopulation ==
  /\ Idle
  /\ callerPc = "awaitFields"
  /\ \A i \in 1..Len(fieldPromises) : Settled(fieldPromises[i].id)
  /\ callerPc' =
       IF \E i \in 1..Len(fieldPromises) : tasks[fieldPromises[i].id].pc = "rejected"
         THEN "failed" ELSE "awaitPopulation"
  /\ UNCHANGED <<args, reset, heap, tasks, stack, fieldPromises, populationPromises, pops>>

CallerDone ==
  /\ Idle
  /\ callerPc = "awaitPopulation"
  /\ \A i \in 1..Len(populationPromises) : pops[populationPromises[i].id].pc = "done"
  /\ callerPc' = "done"
  /\ UNCHANGED <<args, reset, heap, tasks, stack, fieldPromises, populationPromises, pops>>

(***************************************************************************)
(* promise(), lines 89-191: hidden fields, locale hoisting, sanitization.  *)
(***************************************************************************)
\* siblingDoc is null (a nested call on a container slot that holds null):
\* reading siblingDoc[field.name] raises a TypeError
NullSibling(t) == tasks[t].sib = 0

\* the editor is checked in the traversal switch only
ThrowsAt_OnlyAtTraversal(t) ==
  LET f == FieldOf(t)
  IN CASE tasks[t].pc = "hidden" ->
            NullSibling(t) /\ fieldAffectsData(f) /\ f.hidden
       [] tasks[t].pc = "hoist" ->
            NullSibling(t) /\ args.flattenLocales /\ fieldAffectsData(f)
       [] tasks[t].pc = "sanitize" ->
            \/ NullSibling(t) /\ f.type \in {"group", "point"}
            \/ /\ NullSibling(t)
               /\ f.type = "tabs"
               /\ \E i \in 1..Len(f.fields) : tabHasName(args.schema[f.fields[i]])
       [] tasks[t].pc = "default" -> NullSibling(t) /\ tasks[t].allow
       [] tasks[t].pc = "recurse" -> f.type = "richText" /\ f.editor # "ok"
       [] OTHER -> FALSE

\* The statement call t is about to run throws, and promise() rejects.
ThrowsAt(t) ==
  LET f == FieldOf(t)
  IN CASE tasks[t].pc = "hidden" ->
            NullSibling(t) /\ fieldAffectsData(f) /\ f.hidden
       [] tasks[t].pc = "hoist" ->
            NullSibling(t) /\ args.flattenLocales /\ fieldAffectsData(f)
       [] tasks[t].pc = "sanitize" ->
            \/ NullSibling(t) /\ f.type \in {"group", "point"}
            \/ /\ NullSibling(t)
               /\ f.type = "tabs"
               /\ \E i \in 1..Len(f.fields) : tabHasName(args.schema[f.fields[i]])
            \/ f.type = "richText" /\ f.editor # "ok"
       [] tasks[t].pc = "default" -> NullSibling(t) /\ tasks[t].allow
       [] tasks[t].pc = "recurse" -> f.type = "richText" /\ f.editor # "ok"
       [] OTHER -> FALSE

Throw(t) ==
  /\ stack # <<>>
  /\ Top1.k = "promise"
  /\ Top1.t = t
  /\ ThrowsAt(t)
  /\ tasks' = [tasks EXCEPT ![t].pc = "rejected"]
  /\ stack' = Pop
  /\ UNCHANGED <<args, reset, heap, fieldPromises, populationPromises, pops, callerPc>>

\* every field that holds a value is removed, hidden or not
HiddenStep_RemovesAll(t) ==
  /\ At(t, "hidden")
  /\ ~ThrowsAt(t)
  /\ LET f == FieldOf(t)
         remove == /\ fieldAffectsData(f)
                   /\ ~TypeofUndefined(Slot(t))
                   /\ ~args.showHiddenFields
     IN /\ heap' = IF remove THEN Delete(heap, tasks[t].sib, f.name) ELSE heap
        /\ tasks' = [tasks EXCEPT ![t].pc = "hoist", ![t].removed = remove]
  /\ UNCHANGED <<args, reset, stack, fieldPromises, populationPromises, pops, callerPc>>

\* lines 89-96
HiddenStep(t) ==
  /\ At(t, "hidden")
  /\ ~ThrowsAt(t)
  /\ LET f == FieldOf(t)
         remove == /\ fieldAffectsData(f)
                   /\ f.hidden
                   /\ ~TypeofUndefined(Slot(t))
                   /\ ~args.showHiddenFields
     IN /\ heap' = IF remove THEN Delete(heap, tasks[t].sib, f.name) ELSE heap
        /\ tasks' = [tasks EXCEPT ![t].pc = "hoist", ![t].removed = remove]
  /\ UNCHANGED <<args, reset, stack, fieldPromises, populationPromises, pops, callerPc>>

\* the test without req.payload.config.localization
shouldHoistLocalizedValue_IgnoresConfig(t) ==
  /\ args.flattenLocales
  /\ fieldAffectsData(FieldOf(t))
  /\ TypeofObject(Slot(t))
  /\ Slot(t).k # "null"
  /\ FieldOf(t).localized
  /\ args.locale # "all"

\* lines 98-105
shouldHoistLocalizedValue(t) ==
  /\ args.flattenLocales
  /\ fieldAffectsData(FieldOf(t))
  /\ TypeofObject(Slot(t))
  /\ Slot(t).k # "null"
  /\ FieldOf(t).localized
  /\ args.locale # "all"
  /\ args.localization

\* the fallback rule of text fields applied to fields of every type
hoistedValue_TextRuleForAll(t) ==
  LET value == Get(heap, Slot(t), args.locale)
      fallbackValue == Get(heap, Slot(t), args.fallbackLocale)
      isNullOrUndefined == TypeofUndefined(value) \/ value.k = "null"
  IN IF /\ args.fallbackLocale # "none"
        /\ args.fallbackLocale # args.locale
        /\ Truthy(fallbackValue)
        /\ (value = Str("") \/ isNullOrUndefined)
       THEN fallbackValue
       ELSE value

\* lines 110-136
hoistedValue(t) ==
  LET value == Get(heap, Slot(t), args.locale)
      fallbackValue == Get(heap, Slot(t), args.fallbackLocale)
      isNullOrUndefined == TypeofUndefined(value) \/ value.k = "null"
  IN IF /\ args.fallbackLocale # "none"
        /\ args.fallbackLocale # args.locale
        /\ Truthy(fallbackValue)
        /\ IF FieldOf(t).type \in {"text", "textarea"}
             THEN value = Str("") \/ isNullOrUndefined
             ELSE isNullOrUndefined
       THEN fallbackValue
       ELSE value

HoistStep(t) ==
  /\ At(t, "hoist")
  /\ ~ThrowsAt(t)
  /\ IF shouldHoistLocalizedValue(t)
       THEN /\ heap' = Write(heap, tasks[t].sib, FieldOf(t).name, hoistedValue(t))
            /\ tasks' = [tasks EXCEPT
                 ![t] = Logged([@ EXCEPT !.pc = "sanitize", !.hoisted = TRUE], "hoist")]
       ELSE /\ heap' = heap
            /\ tasks' = [tasks EXCEPT ![t].pc = "sanitize"]
  /\ UNCHANGED <<args, reset, stack, fieldPromises, populationPromises, pops, callerPc>>

\* a new object {} : its id and the heap that holds it
NewId(h) == Len(h) + 1
Alloc(h) == Append(h, EmptyObj)

\* lines 152-163: every named tab whose slot is undefined or null gets {}
RECURSIVE SanitizeTabs(_, _, _)
SanitizeTabs(h, sib, tabs) ==
  IF tabs = <<>>
    THEN h
    ELSE LET tab == args.schema[Head(tabs)]
             empty == /\ tabHasName(tab)
                      /\ \/ TypeofUndefined(Read(h, sib, tab.name))
                         \/ Read(h, sib, tab.name).k = "null"
         IN SanitizeTabs(
              IF empty THEN Write(Alloc(h), sib, tab.name, Obj(NewId(h))) ELSE h,
              sib, Tail(tabs))

\* pointDoc?.coordinates
Coordinates(h, pointDoc) == Get(h, pointDoc, "coordinates")

\* a point is collapsed to its coordinates array whatever its length
Sanitized_AnyCoordinates(h, sib, f) ==
  CASE f.type = "group" ->
         IF TypeofUndefined(Read(h, sib, f.name))
           THEN Write(Alloc(h), sib, f.name, Obj(NewId(h)))
           ELSE h
    [] f.type = "tabs" -> SanitizeTabs(h, sib, f.fields)
    [] f.type = "point" ->
         LET pointDoc == Read(h, sib, f.name)
         IN IF IsArray(Coordinates(h, pointDoc))
              THEN Write(h, sib, f.name, Coordinates(h, pointDoc))
              ELSE Write(h, sib, f.name, Undef)
    [] OTHER -> h

\* lines 141-191
Sanitized(h, sib, f) ==
  CASE f.type = "group" ->
         IF TypeofUndefined(Read(h, sib, f.name))
           THEN Write(Alloc(h), sib, f.name, Obj(NewId(h)))
           ELSE h
    [] f.type = "tabs" -> SanitizeTabs(h, sib, f.fields)
    [] f.type = "point" ->
         LET pointDoc == Read(h, sib, f.name)
         IN IF /\ IsArray(Coordinates(h, pointDoc))
               /\ Len(Coordinates(h, pointDoc).rows) = 2
              THEN Write(h, sib, f.name, Coordinates(h, pointDoc))
              ELSE Write(h, sib, f.name, Undef)
    [] OTHER -> h

SanitizeStep(t) ==
  /\ At(t, "sanitize")
  /\ ~ThrowsAt(t)
  /\ heap' = Sanitized(heap, tasks[t].sib, FieldOf(t))
  /\ tasks' = [tasks EXCEPT ![t] =
       IF FieldOf(t).type \in {"group", "tabs", "richText", "point"}
         THEN Logged([@ EXCEPT !.pc = "hooks"], "sanitize")
         ELSE [@ EXCEPT !.pc = "hooks"]]
  /\ UNCHANGED <<args, reset, stack, fieldPromises, populationPromises, pops, callerPc>>

(***************************************************************************)
(* Hooks, lines 193-262 (field.hooks.afterRead) and 603-684 (the rich text *)
(* editor's hooks.afterRead).  A chain is a reduce over async functions    *)
(* that each await the one before: no hook is invoked before the call has  *)
(* been suspended once.                                                    *)
(***************************************************************************)
\* value.toUpperCase()
Upper(v) ==
  CASE v = Str("a") -> Str("A")
    [] v = Str("x") -> Str("X")
    [] v = Str("d") -> Str("D")
    [] v = Str("h") -> Str("H")
    [] OTHER -> v

\* what a hook of unknown result may return
AnyReturns == {Undef, Null, Str(""), Num(0), False, Str("h")}

\* the object that the hook "retObj" returns in place of the value
HookObject == Obj(3)

\* the values hook `hook` may resolve to when invoked with `value`
HookReturns(hook, value) ==
  CASE hook = "retA" -> {Str("a")}
    [] hook = "upper" -> {Upper(value)}
    [] hook = "retObj" -> {HookObject}
    [] OTHER -> AnyReturns

\* the field's hooks run whatever triggerHooks says
RunsFieldHooks_Always(f) == f.hooks # <<>>

\* line 195: triggerHooks && field.hooks?.afterRead (a field without hooks
\* is one whose list of hooks is empty)
RunsFieldHooks(f) == args.triggerHooks /\ f.hooks # <<>>
\* line 603: editor?.hooks?.afterRead?.length
RunsEditorHooks(f) == f.editorHooks # <<>>

\* the chain call t is running: "hookNext"/"hookAwait" the field's,
\* "rtHookNext"/"rtHookAwait" the editor's
ChainOf(t) ==
  IF tasks[t].pc \in {"hookNext", "hookAwait"}
    THEN FieldOf(t).hooks
    ELSE FieldOf(t).editorHooks

\* a reduceRight: the hooks run last to first
HookAt_Reversed(chain, n) == chain[Len(chain) + 1 - n]

\* lines 196 and 604: reduce runs the hooks in the order of the array
HookAt(chain, n) == chain[n]

\* the fan-out is taken for locale 'all' only
shouldRunHookOnAllLocales_OnlyForAll(t) ==
  /\ FieldOf(t).localized
  /\ args.locale = "all"
  /\ TypeofObject(Slot(t))

\* lines 199-202 and 607-610
shouldRunHookOnAllLocales(t) ==
  /\ FieldOf(t).localized
  /\ args.locale = "all" \/ ~args.flattenLocales
  /\ TypeofObject(Slot(t))

\* Object.entries(siblingDoc[field.name]): the keys, and the value of each.
\* (No localized field with hooks holds an array in the documents modelled.)
EntryKeys(h, v) == IF v.k = "obj" THEN {key \in Keys : h[v.n][key].k # "absent"} ELSE {}

\* the chain is started and not awaited: the call goes on at once
HooksStart_NoAwait(t) ==
  /\ At(t, "hooks")
  /\ tasks' = [tasks EXCEPT
       ![t].pc = IF fieldAffectsData(FieldOf(t)) THEN "access" ELSE "recurse"]
  /\ UNCHANGED <<args, reset, heap, stack, fieldPromises, populationPromises, pops, callerPc>>

\* line 193
HooksStart(t) ==
  /\ At(t, "hooks")
  /\ IF fieldAffectsData(FieldOf(t)) /\ RunsFieldHooks(FieldOf(t))
       THEN /\ tasks' = [tasks EXCEPT ![t].pc = "hookNext", ![t].hi = 1]
            /\ stack' = Pop
       ELSE /\ tasks' = [tasks EXCEPT
                 ![t].pc = IF fieldAffectsData(FieldOf(t)) THEN "access" ELSE "recurse"]
            /\ stack' = stack
  /\ UNCHANGED <<args, reset, heap, fieldPromises, populationPromises, pops, callerPc>>

\* The reducer of hook tasks[t].hi resumes after `await priorHook` and
\* invokes the hook: once with the slot, or once per locale key.
InvokeHook(t, next, await) ==
  /\ Idle
  /\ tasks[t].pc = next
  /\ tasks[t].hi <= Len(ChainOf(t))
  /\ LET keys == IF shouldRunHookOnAllLocales(t)
                   THEN EntryKeys(heap, Slot(t))
                   ELSE {"*"}
         value == [key \in keys |->
                     IF key = "*" THEN Slot(t) ELSE Get(heap, Slot(t), key)]
     IN tasks' = [tasks EXCEPT ![t] =
          \* Object.entries(null) raises a TypeError
          IF NullSibling(t) \/ (shouldRunHookOnAllLocales(t) /\ Slot(t).k = "null")
            THEN [@ EXCEPT !.pc = "rejected"]
            ELSE IF keys = {}
                   THEN [@ EXCEPT !.hi = @ + 1]
                   ELSE Logged([@ EXCEPT !.pc = await, !.inflight = keys,
                                         !.arg = value],
                               IF await = "hookAwait" THEN "hook" ELSE "editorHook")]
  /\ UNCHANGED <<args, reset, heap, stack, fieldPromises, populationPromises, pops, callerPc>>

\* if (hookedValue): a falsy result is taken for "no change"
WritesBack_IfTruthy(hookedValue) == Truthy(hookedValue)

\* lines 228-230, 257-259 (643-645, 679-681): if (hookedValue !== undefined)
WritesBack(hookedValue) == Defined(hookedValue)

\* the document after the invocation for `key` has resolved to hookedValue
HookWritten(h, t, key, hookedValue) ==
  IF ~WritesBack(hookedValue)
    THEN h
    ELSE IF key = "*"
           THEN Write(h, tasks[t].sib, FieldOf(t).name, hookedValue)
           ELSE IF Slot(t).k = "obj"
                  THEN Write(h, Slot(t).n, key, hookedValue)
                  ELSE h

\* One invocation of the hook settles; its result is written back; when all
\* invocations of this hook have settled the chain moves on to the next hook.
SettleHook(t, next, await) ==
  /\ Idle
  /\ tasks[t].pc = await
  /\ \E key \in tasks[t].inflight :
       \E hookedValue \in HookReturns(HookAt(ChainOf(t), tasks[t].hi),
                                          tasks[t].arg[key]) :
         /\ heap' = HookWritten(heap, t, key, hookedValue)
         /\ tasks' = [tasks EXCEPT ![t] =
              LET r == [@ EXCEPT
                         !.inflight = @ \ {key},
                         !.hookLog = Append(@, [chain |-> await, i |-> tasks[t].hi,
                                                key |-> key,
                                                value |-> tasks[t].arg[key],
                                                ret |-> hookedValue])]
              IN IF r.inflight = {}
                   THEN [r EXCEPT !.pc = next, !.hi = @ + 1, !.arg = <<>>]
                   ELSE r]
  /\ UNCHANGED <<args, reset, stack, fieldPromises, populationPromises, pops, callerPc>>

FieldHookInvoke(t) == InvokeHook(t, "hookNext", "hookAwait")
FieldHookSettle(t) == SettleHook(t, "hookNext", "hookAwait")

\* line 196: the await of the whole chain resumes
FieldHooksDone(t) ==
  /\ Idle
  /\ tasks[t].pc = "hookNext"
  /\ tasks[t].hi > Len(FieldOf(t).hooks)
  /\ tasks' = [tasks EXCEPT ![t].pc = "access"]
  /\ stack' = <<PromiseFrame(t)>>
  /\ UNCHANGED <<args, reset, heap, fieldPromises, populationPromises, pops, callerPc>>

(***************************************************************************)
(* Access control, default value, population: lines 264-313.               *)
(***************************************************************************)
\* line 266: triggerAccessControl && field.access && field.access.read
HasAccessGate(f) == args.triggerAccessControl /\ f.access
\* a gate that does not look at overrideAccess
InvokesAccess_IgnoresOverride(f) == HasAccessGate(f)

\* lines 267-275: the predicate is awaited unless overrideAccess
InvokesAccess(f) == HasAccessGate(f) /\ ~args.overrideAccess

\* the population task enqueued before the access check has been awaited
AccessStep_SchedulesPopulation(t) ==
  /\ At(t, "access")
  /\ IF InvokesAccess(FieldOf(t))
       THEN /\ tasks' = [tasks EXCEPT ![t] =
                 Logged([@ EXCEPT !.pc = "accessAwait", !.allow = TRUE,
                                  !.accessInvoked = TRUE], "access")]
            /\ stack' = Pop
       ELSE /\ tasks' = [tasks EXCEPT ![t].pc = "default", ![t].allow = TRUE]
            /\ stack' = stack
  /\ IF FieldOf(t).type \in RefTypes
       THEN /\ pops' = Append(pops,
                 [f |-> tasks[t].f, sib |-> tasks[t].sib, by |-> t, pc |-> "started",
                  ranAt |-> "", ranBefore |-> {}])
            /\ populationPromises' =
                 Append(populationPromises, [kind |-> "population", id |-> Len(pops) + 1])
       ELSE /\ pops' = pops
            /\ populationPromises' = populationPromises
  /\ UNCHANGED <<args, reset, heap, fieldPromises, callerPc>>

AccessStep(t) ==
  /\ At(t, "access")
  /\ IF InvokesAccess(FieldOf(t))
       THEN /\ tasks' = [tasks EXCEPT ![t] =
                 Logged([@ EXCEPT !.pc = "accessAwait", !.allow = TRUE,
                                  !.accessInvoked = TRUE], "access")]
            /\ stack' = Pop
       ELSE /\ tasks' = [tasks EXCEPT ![t].pc = "default", ![t].allow = TRUE]
            /\ stack' = stack
  /\ UNCHANGED <<args, reset, heap, fieldPromises, populationPromises, pops, callerPc>>

\* a denial that forgets allowDefaultValue = false
Denied_KeepsDefault(r) == [r EXCEPT !.denied = TRUE]

\* lines 277-280: what a falsy result does
Denied(r) == [r EXCEPT !.allow = FALSE, !.denied = TRUE]

\* field.access.read has resolved to result
AccessSettle(t) ==
  /\ Idle
  /\ tasks[t].pc = "accessAwait"
  /\ \E result \in BOOLEAN :
       IF result
         THEN /\ tasks' = [tasks EXCEPT ![t].pc = "default"]
              /\ heap' = heap
              /\ stack' = <<PromiseFrame(t)>>
         ELSE IF NullSibling(t)
                THEN /\ tasks' = [tasks EXCEPT ![t].pc = "rejected"]
                     /\ heap' = heap
                     /\ stack' = stack
                ELSE /\ tasks' = [tasks EXCEPT ![t] = Denied([@ EXCEPT !.pc = "default"])]
                     /\ heap' = Delete(heap, tasks[t].sib, FieldOf(t).name)
                     /\ stack' = <<PromiseFrame(t)>>
  /\ UNCHANGED <<args, reset, fieldPromises, populationPromises, pops, callerPc>>

\* the slot is tested for a falsy value, not for undefined
SubstitutesDefault_IfFalsy(t) ==
  /\ tasks[t].allow
  /\ ~Truthy(Slot(t))
  /\ Defined(FieldOf(t).dflt)

\* lines 285-289
SubstitutesDefault(t) ==
  /\ tasks[t].allow
  /\ TypeofUndefined(Slot(t))
  /\ Defined(FieldOf(t).dflt)

DefaultStep(t) ==
  /\ At(t, "default")
  /\ ~ThrowsAt(t)
  /\ IF SubstitutesDefault(t)
       THEN /\ tasks' = [tasks EXCEPT ![t] =
                 Logged([@ EXCEPT !.pc = "defaultAwait", !.defaultInvoked = TRUE],
                        "default")]
            /\ stack' = Pop
       ELSE /\ tasks' = [tasks EXCEPT ![t].pc = "populate"]
            /\ stack' = stack
  /\ UNCHANGED <<args, reset, heap, fieldPromises, populationPromises, pops, callerPc>>

\* getDefaultValue({ defaultValue, locale, user, value }) has resolved
getDefaultValue(f) == f.dflt

\* the access gate placed after the default value
DefaultSettle_ThenAccess(t) ==
  /\ Idle
  /\ tasks[t].pc = "defaultAwait"
  /\ heap' = Write(heap, tasks[t].sib, FieldOf(t).name, getDefaultValue(FieldOf(t)))
  /\ tasks' = [tasks EXCEPT ![t].pc = "access"]
  /\ stack' = <<PromiseFrame(t)>>
  /\ UNCHANGED <<args, reset, fieldPromises, populationPromises, pops, callerPc>>

DefaultSettle(t) ==
  /\ Idle
  /\ tasks[t].pc = "defaultAwait"
  /\ heap' = Write(heap, tasks[t].sib, FieldOf(t).name, getDefaultValue(FieldOf(t)))
  /\ tasks' = [tasks EXCEPT ![t].pc = "populate"]
  /\ stack' = <<PromiseFrame(t)>>
  /\ UNCHANGED <<args, reset, fieldPromises, populationPromises, pops, callerPc>>

\* field.type === 'relationship' || 'upload' || 'join': true of every type
SchedulesPopulation_Always(f) == TRUE

\* line 298
SchedulesPopulation(f) == f.type \in RefTypes

\* lines 299-312: relationshipPopulationPromise(...) is called here, and the
\* promise it returns is appended to populationPromises
PopulateStep(t) ==
  /\ At(t, "populate")
  /\ IF SchedulesPopulation(FieldOf(t))
       THEN /\ pops' = Append(pops,
                 [f |-> tasks[t].f, sib |-> tasks[t].sib, by |-> t, pc |-> "started",
                  \* the caller's position and the calls unsettled when it ran
                  ranAt |-> "", ranBefore |-> {}])
            /\ populationPromises' =
                 Append(populationPromises, [kind |-> "population", id |-> Len(pops) + 1])
            /\ tasks' = [tasks EXCEPT ![t] = Logged([@ EXCEPT !.pc = "recurse"], "populate")]
       ELSE /\ pops' = pops
            /\ populationPromises' = populationPromises
            /\ tasks' = [tasks EXCEPT ![t].pc = "recurse"]
  /\ UNCHANGED <<args, reset, heap, stack, fieldPromises, callerPc>>

\* The population task runs: it replaces the id stored in the slot by the
\* document the id refers to.
PopulationRun(p) ==
  /\ Idle
  /\ pops[p].pc = "started"
  /\ heap' =
       IF Read(heap, pops[p].sib, args.schema[pops[p].f].name).k = "str"
         THEN Write(heap, pops[p].sib, args.schema[pops[p].f].name, Str("populated"))
         ELSE heap
  /\ pops' = [pops EXCEPT ![p].pc = "done", ![p].ranAt = callerPc,
                          ![p].ranBefore = {t \in 1..Len(tasks) : ~Settled(t)}]
  /\ UNCHANGED <<args, reset, tasks, stack, fieldPromises, populationPromises, callerPc>>

(***************************************************************************)
(* Recursion into nested containers: lines 316-691.  tasks[t].work is the  *)
(* list of traverseFields calls the switch makes, in order.                *)
(***************************************************************************)
Call(fields, sib, path, schemaPath) ==
  [fields |-> fields, sib |-> sib, path |-> path, schemaPath |-> schemaPath,
   asTab |-> FALSE]

\* an index of a path, written as the path segment it becomes
IndexSegment(i) == <<"0", "1", "2", "3", "4">>[i + 1]
\* the segment that stands for an unnamed field in a schema path
SyntheticSegment(i) == <<"_index-0", "_index-1", "_index-2", "_index-3">>[i + 1]

\* lines 82-87: getFieldPaths({ field, parentPath, parentSchemaPath, schemaIndex })
fieldPath(t) ==
  IF fieldAffectsData(FieldOf(t)) \/ tabHasName(FieldOf(t))
    THEN tasks[t].parentPath \o <<FieldOf(t).name>>
    ELSE tasks[t].parentPath
fieldSchemaPath(t) ==
  IF fieldAffectsData(FieldOf(t)) \/ tabHasName(FieldOf(t))
    THEN tasks[t].parentSchemaPath \o <<FieldOf(t).name>>
    ELSE tasks[t].parentSchemaPath \o <<SyntheticSegment(tasks[t].fieldIndex)>>

\* the rows are given the path of the field alone
RowPath_NoIndex(path, i) == path

\* lines 371, 400, 443 and 478: path: [...fieldPath, i]
RowPath(path, i) == path \o <<IndexSegment(i)>>

\* the container a slot value denotes: an object, or 0 for null.  (A group or
\* tab slot never holds an array in the documents modelled.)
ContainerOf(v) == IF v.k = "obj" THEN v.n ELSE 0

\* block.fields of the block whose slug is row.blockType, <<>> when none
RECURSIVE BlockFields(_, _)
BlockFields(blocks, blockType) ==
  IF blocks = <<>>
    THEN <<>>
    ELSE IF Str(Head(blocks).slug) = blockType
           THEN Head(blocks).fields
           ELSE BlockFields(Tail(blocks), blockType)
\* every row is taken to have its block
HasBlock_AnyType(blocks, blockType) == TRUE

\* lines 423-427: field.blocks.find(...) has found a block
HasBlock(blocks, blockType) ==
  \E i \in 1..Len(blocks) : Str(blocks[i].slug) = blockType

\* line 424: (row as JsonObject).blockType of a row that is null raises a
\* TypeError; the loop ends there
Raise == Call(<<>>, -1, <<>>, <<>>)

\* rows.forEach: one traverseFields call per row (array), or per row whose
\* blockType names a block (blocks).  The rows of an array value are objects
\* in the documents modelled, so `row || {}` is the row; a row of a blocks
\* value is an object or null (row 0).
RECURSIVE RowCalls(_, _, _, _, _, _)
RowCalls(h, f, rows, i, path, schemaPath) ==
  IF rows = <<>>
    THEN <<>>
    ELSE LET row == Head(rows)
             rest == RowCalls(h, f, Tail(rows), i + 1, path, schemaPath)
         IN IF f.type = "array"
              THEN <<Call(f.fields, row, RowPath(path, i), schemaPath)>> \o rest
              ELSE IF row = 0
                     THEN IF f.blocks # <<>> THEN <<Raise>> ELSE rest
                     ELSE IF HasBlock(f.blocks, h[row]["blockType"])
                            THEN <<Call(BlockFields(f.blocks, h[row]["blockType"]), row,
                                        RowPath(path, i), schemaPath)>>
                                 \o rest
                            ELSE rest

\* Object.values(rows).forEach: the rows of every locale that holds an array
RECURSIVE LocaleRowCalls(_, _, _, _, _, _)
LocaleRowCalls(h, f, v, keys, path, schemaPath) ==
  IF keys = <<>>
    THEN <<>>
    ELSE (IF IsArray(Get(h, v, Head(keys)))
            THEN RowCalls(h, f, Get(h, v, Head(keys)).rows, 0, path, schemaPath)
            ELSE <<>>)
         \o LocaleRowCalls(h, f, v, Tail(keys), path, schemaPath)

\* only a slot that holds undefined is given []
CoercesToEmpty_OnlyUndefined(t) == TypeofUndefined(Slot(t))

\* lines 412-414 and 491-493: the slot is neither an array nor (unhoisted) an object
CoercesToEmpty(t) ==
  /\ ~IsArray(Slot(t))
  /\ ~(~tasks[t].hoisted /\ TypeofObject(Slot(t)) /\ Slot(t).k # "null")

\* the nested fields always get a new {}
Detached_Always(t) == TRUE

\* a group's or named tab's slot is not an object: the nested fields get a
\* new {} that is stored nowhere
Detached(t) == ~TypeofObject(Slot(t))

\* the container is the object the slot held when promise() was called
groupDoc_OnEntry(t) == ContainerOf(tasks[t].entry)

\* lines 317 and 531: groupDoc = siblingDoc[field.name], read at the case
groupDoc(t) == ContainerOf(Slot(t))

RecurseStep(t) ==
  /\ At(t, "recurse")
  /\ ~ThrowsAt(t)
  /\ LET f == FieldOf(t)
         sib == tasks[t].sib
         named == f.type = "group" \/ (f.type = "tab" /\ tabHasName(f))
     IN CASE named ->
               /\ heap' = IF Detached(t) THEN Alloc(heap) ELSE heap
               /\ tasks' = [tasks EXCEPT ![t] = Logged([@ EXCEPT
                    !.pc = "recursing",
                    !.seen = Slot(t),
                    !.work = <<Call(f.fields,
                                    IF Detached(t) THEN NewId(heap)
                                                   ELSE groupDoc(t),
                                    fieldPath(t), fieldSchemaPath(t))>>],
                    "recurse")]
          [] f.type \in {"array", "blocks"} ->
               /\ heap' = IF CoercesToEmpty(t)
                            THEN Write(heap, sib, f.name, Arr(<<>>))
                            ELSE heap
               /\ tasks' = [tasks EXCEPT ![t] = Logged([@ EXCEPT
                    !.pc = "recursing",
                    !.seen = Slot(t),
                    !.work = IF IsArray(Slot(t))
                               THEN RowCalls(heap, f, Slot(t).rows, 0,
                                             fieldPath(t), fieldSchemaPath(t))
                               ELSE IF CoercesToEmpty(t)
                                      THEN <<>>
                                      ELSE LocaleRowCalls(heap, f, Slot(t), KeyOrder,
                                                          fieldPath(t),
                                                          fieldSchemaPath(t))],
                    "recurse")]
          [] f.type \in {"row", "collapsible", "tabs"} \/ (f.type = "tab" /\ ~named) ->
               /\ heap' = heap
               /\ tasks' = [tasks EXCEPT ![t] = Logged([@ EXCEPT
                    !.pc = "recursing",
                    !.work = <<[Call(f.fields, sib, fieldPath(t), fieldSchemaPath(t))
                                  EXCEPT !.asTab = f.type = "tabs"]>>],
                    "recurse")]
          [] f.type = "richText" /\ RunsEditorHooks(f) ->
               /\ heap' = heap
               /\ tasks' = [tasks EXCEPT ![t].pc = "rtHookNext", ![t].hi = 1]
          [] OTHER ->
               /\ heap' = heap
               /\ tasks' = [tasks EXCEPT ![t].pc = "done"]
  /\ stack' = IF tasks'[t].pc = "recursing" THEN stack ELSE Pop
  /\ UNCHANGED <<args, reset, fieldPromises, populationPromises, pops, callerPc>>

\* the next traverseFields call of the switch, or the end of promise()
RecurseNext(t) ==
  /\ At(t, "recursing")
  /\ IF tasks[t].work # <<>>
       THEN IF Head(tasks[t].work) = Raise
              THEN /\ tasks' = [tasks EXCEPT ![t].pc = "rejected", ![t].work = <<>>]
                   /\ stack' = Pop
              ELSE /\ tasks' = [tasks EXCEPT ![t].work = Tail(@)]
                   /\ stack' = Append(stack, [TraverseFrame(t,
                                                   Head(tasks[t].work).fields,
                                                   Head(tasks[t].work).sib,
                                                   Head(tasks[t].work).path,
                                                   Head(tasks[t].work).schemaPath)
                                                 EXCEPT !.asTab = Head(tasks[t].work).asTab])
       ELSE /\ tasks' = [tasks EXCEPT ![t].pc = "done"]
            /\ stack' = Pop
  /\ UNCHANGED <<args, reset, heap, fieldPromises, populationPromises, pops, callerPc>>

EditorHookInvoke(t) == InvokeHook(t, "rtHookNext", "rtHookAwait")
EditorHookSettle(t) == SettleHook(t, "rtHookNext", "rtHookAwait")

\* line 604: the await of the editor's chain resumes, and promise() ends
EditorHooksDone(t) ==
  /\ Idle
  /\ tasks[t].pc = "rtHookNext"
  /\ tasks[t].hi > Len(FieldOf(t).editorHooks)
  /\ tasks' = [tasks EXCEPT ![t].pc = "done"]
  /\ UNCHANGED <<args, reset, heap, stack, fieldPromises, populationPromises, pops, callerPc>>

(***************************************************************************)
(* The specification.                                                      *)
(***************************************************************************)
Tasks == 1..Len(tasks)

Next ==
  \/ Start
  \/ TraverseCall
  \/ TraversePush
  \/ TraverseReturn
  \/ CallerAwaitFields
  \/ CallerAwaitPopulation
  \/ CallerDone
  \/ \E t \in Tasks : Throw(t)
  \/ \E t \in Tasks : HiddenStep(t)
  \/ \E t \in Tasks : HoistStep(t)
  \/ \E t \in Tasks : SanitizeStep(t)
  \/ \E t \in Tasks : HooksStart(t)
  \/ \E t \in Tasks : FieldHookInvoke(t)
  \/ \E t \in Tasks : FieldHookSettle(t)
  \/ \E t \in Tasks : FieldHooksDone(t)
  \/ \E t \in Tasks : AccessStep(t)
  \/ \E t \in Tasks : AccessSettle(t)
  \/ \E t \in Tasks : DefaultStep(t)
  \/ \E t \in Tasks : DefaultSettle(t)
  \/ \E t \in Tasks : PopulateStep(t)
  \/ \E t \in Tasks : RecurseStep(t)
  \/ \E t \in Tasks : RecurseNext(t)
  \/ \E t \in Tasks : EditorHookInvoke(t)
  \/ \E t \in Tasks : EditorHookSettle(t)
  \/ \E t \in Tasks : EditorHooksDone(t)
  \/ \E p \in 1..Len(pops) : PopulationRun(p)

Spec == Init /\ [][Next]_vars

(***************************************************************************)
(* resetPassword (auth/operations/resetPassword.js).  A call runs to its   *)
(* next await in one step; reset.calls[c].pc names the await the call is   *)
(* suspended at.  The calls share the stored user (reset.user); the user   *)
(* a call got from findOne is its own copy of the document.                *)
(***************************************************************************)
\* args.data: "absent" is a property the object does not have
ResetData ==
  {[token |-> "t1", password |-> "new"], [token |-> "bad", password |-> "new"],
   [token |-> "absent", password |-> "new"], [token |-> "t1", password |-> "absent"],
   [token |-> "absent", password |-> "absent"]}
NoUser == [resetPasswordToken |-> "", resetPasswordExpiration |-> 0, password |-> ""]

Calls == 1..Len(reset.calls)
\* what happens in a step of call c
Advance(c, r) == reset' = [reset EXCEPT !.calls[c] = r]

\* only a missing token is refused
MissingRequiredData_TokenOnly(data) == data.token = "absent"

\* lines 8-9: args.data has no own property token, or no own property password
MissingRequiredData(data) == data.token = "absent" \/ data.password = "absent"

\* lines 37-40: Model.findOne is called with the token and Date.now()
findOne(r) == [r EXCEPT !.pc = "findOne", !.lookedUp = TRUE, !.asked = reset.now]

\* lines 5-23: the call is made and runs to its first await
resetPassword ==
  /\ Len(reset.calls) < MaxCalls
  /\ \E data \in ResetData :
       LET r == [data |-> data, pc |-> "start", user |-> NoUser, asked |-> 0,
                 result |-> "pending", matched |-> "none",
                 hookBefore |-> FALSE, lookedUp |-> FALSE, passwordSet |-> FALSE,
                 saved |-> FALSE, signed |-> FALSE, cookie |-> FALSE,
                 hookAfter |-> FALSE]
       IN reset' = [reset EXCEPT !.calls = Append(@,
            IF MissingRequiredData(data)
              THEN [r EXCEPT !.pc = "failed", !.result = "Missing required data."]
              ELSE IF reset.beforeResetPassword
                     THEN [r EXCEPT !.pc = "beforeResetPassword", !.hookBefore = TRUE]
                     ELSE findOne(r))]
  /\ UNCHANGED <<args, heap, tasks, stack, fieldPromises, populationPromises, pops,
                 callerPc>>

\* line 22: the hook has resolved (to the options it was given)
BeforeResetPasswordResolves(c) ==
  /\ reset.calls[c].pc = "beforeResetPassword"
  /\ Advance(c, findOne(reset.calls[c]))
  /\ UNCHANGED <<args, heap, tasks, stack, fieldPromises, populationPromises, pops,
                 callerPc>>

\* lines 38-39: the stored user has the token and an expiration later than
\* the time the query was made with
Matches(r) ==
  /\ reset.user.resetPasswordToken = r.data.token
  /\ reset.user.resetPasswordExpiration > r.asked

\* lines 37-44: the query has resolved; without a user the call throws, with
\* one it calls user.setPassword
FindOneResolves(c) ==
  /\ reset.calls[c].pc = "findOne"
  /\ Advance(c, IF Matches(reset.calls[c])
                  THEN [reset.calls[c] EXCEPT !.pc = "setPassword", !.matched = "yes",
                                              !.user = reset.user]
                  ELSE [reset.calls[c] EXCEPT
                          !.pc = "failed", !.matched = "no",
                          !.result = "Token is either invalid or has expired."])
  /\ UNCHANGED <<args, heap, tasks, stack, fieldPromises, populationPromises, pops,
                 callerPc>>

\* lines 44-48: the password is set on the call's user, its expiration is
\* set to Date.now(), and user.save() is called
SetPasswordResolves(c) ==
  /\ reset.calls[c].pc = "setPassword"
  /\ Advance(c, [reset.calls[c] EXCEPT
                   !.pc = "save", !.passwordSet = TRUE,
                   !.user.password = reset.calls[c].data.password,
                   !.user.resetPasswordExpiration = reset.now])
  /\ UNCHANGED <<args, heap, tasks, stack, fieldPromises, populationPromises, pops,
                 callerPc>>

\* lines 48-50: the call's user has been stored; user.authenticate is called
SaveResolves(c) ==
  /\ reset.calls[c].pc = "save"
  /\ reset' = [reset EXCEPT
                 !.user = reset.calls[c].user,
                 !.calls[c].pc = "authenticate",
                 !.calls[c].saved = TRUE]
  /\ UNCHANGED <<args, heap, tasks, stack, fieldPromises, populationPromises, pops,
                 callerPc>>

\* lines 50-97: the JWT is signed, the cookie is written when args.res is
\* given, and afterResetPassword is called when it is a function
AuthenticateResolves(c) ==
  /\ reset.calls[c].pc = "authenticate"
  /\ Advance(c, LET r == [reset.calls[c] EXCEPT !.signed = TRUE, !.cookie = reset.res]
                IN IF reset.afterResetPassword
                     THEN [r EXCEPT !.pc = "afterResetPassword", !.hookAfter = TRUE]
                     ELSE [r EXCEPT !.pc = "done", !.result = "token"])
  /\ UNCHANGED <<args, heap, tasks, stack, fieldPromises, populationPromises, pops,
                 callerPc>>

\* lines 96-103: the hook has resolved; the call returns the token
AfterResetPasswordResolves(c) ==
  /\ reset.calls[c].pc = "afterResetPassword"
  /\ Advance(c, [reset.calls[c] EXCEPT !.pc = "done", !.result = "token"])
  /\ UNCHANGED <<args, heap, tasks, stack, fieldPromises, populationPromises, pops,
                 callerPc>>

\* time passes between two steps
Tick ==
  /\ reset.now < MaxTime
  /\ reset' = [reset EXCEPT !.now = @ + 1]
  /\ UNCHANGED <<args, heap, tasks, stack, fieldPromises, populationPromises, pops,
                 callerPc>>

\* the collection's hooks and args.res; no document is being read
InitReset ==
  /\ \E before, after, res \in BOOLEAN :
       reset = [NoReset EXCEPT !.beforeResetPassword = before,
                               !.afterResetPassword = after, !.res = res]
  /\ args = [scenario |-> "none"]
  /\ heap = <<>>
  /\ tasks = <<>>
  /\ stack = <<>>
  /\ fieldPromises = <<>>
  /\ populationPromises = <<>>
  /\ pops = <<>>
  /\ callerPc = "none"

NextReset ==
  \/ resetPassword
  \/ \E c \in Calls : BeforeResetPasswordResolves(c)
  \/ \E c \in Calls : FindOneResolves(c)
  \/ \E c \in Calls : SetPasswordResolves(c)
  \/ \E c \in Calls : SaveResolves(c)
  \/ \E c \in Calls : AuthenticateResolves(c)
  \/ \E c \in Calls : AfterResetPasswordResolves(c)
  \/ Tick

SpecReset == InitReset /\ [][NextReset]_vars

(***************************************************************************)
(* Properties.                                                             *)
(***************************************************************************)
\* siblingDoc[field.name] of call t as stored (Absent: no such key)
StoredSlot(t) == Stored(heap, tasks[t].sib, FieldOf(t).name)
\* promise() call t has returned or thrown, and all it awaited has settled
Completed(t) == tasks[t].pc = "done"

\* C1: a field whose read-access predicate returned a falsy result has been
\* deleted from the sibling when the access step ends, and is not given its
\* default in that call: getDefaultValue is never invoked for a denied field,
\* also when field.defaultValue is defined.
C1_DeniedFieldGetsNoDefault ==
  \A t \in Tasks :
    tasks[t].denied =>
      /\ ~tasks[t].defaultInvoked
      /\ ~tasks[t].allow
      /\ tasks[t].pc \in {"default", "populate"} => StoredSlot(t).k = "absent"

\* a denied field with a default configured, whose call has completed
C1_Witness ==
  \E t \in Tasks :
    /\ tasks[t].denied
    /\ Defined(FieldOf(t).dflt)
    /\ Completed(t)

\* C2: once the read-access predicate has denied a field, the sibling has no
\* value under the field's name when the promise() call has completed, for
\* every field type.
C2_DeniedFieldIsMissingKey ==
  \A t \in Tasks :
    tasks[t].denied /\ Completed(t) => StoredSlot(t).k = "absent"

\* C3: the access predicate is invoked only for a data-bearing field that
\* defines access.read, only when triggerAccessControl is true and
\* overrideAccess is false, and then it is invoked; the access step deletes
\* the value only after a falsy result of the predicate, so with
\* overrideAccess nothing is invoked or deleted.
C3_AccessGateOnlyWhenNotOverridden ==
  \A t \in Tasks :
    /\ tasks[t].accessInvoked =>
         /\ fieldAffectsData(FieldOf(t))
         /\ FieldOf(t).access
         /\ args.triggerAccessControl
         /\ ~args.overrideAccess
    /\ tasks[t].denied => tasks[t].accessInvoked
    /\ ( /\ tasks[t].pc \in {"default", "defaultAwait", "populate", "recurse", "done"}
         /\ fieldAffectsData(FieldOf(t))
         /\ FieldOf(t).access
         /\ args.triggerAccessControl
         /\ ~args.overrideAccess ) => tasks[t].accessInvoked

\* a field with access.read read under overrideAccess, its call completed
\* with the stored value in place
C3_Witness ==
  \E t \in Tasks :
    /\ FieldOf(t).access
    /\ args.triggerAccessControl
    /\ args.overrideAccess
    /\ Completed(t)
    /\ StoredSlot(t) = Str("x")

\* the steps of one call in the order the claim gives them, the rich text
\* editor's hooks counted with the field's hooks
ClaimedRank(step) ==
  CASE step = "hoist" -> 1
    [] step = "sanitize" -> 2
    [] step \in {"hook", "editorHook"} -> 3
    [] step = "access" -> 4
    [] step = "default" -> 5
    [] step = "populate" -> 6
    [] OTHER -> 7
\* the same, the rich text editor's hooks last
CodeRank(step) == IF step = "editorHook" THEN 8 ELSE ClaimedRank(step)

\* C4 as claimed: the steps of one promise() call start in the order locale
\* hoisting, sanitization, every after-read hook invocation (the field's and
\* the rich text editor's), access predicate, default value, population
\* enqueue, recursion.
C4_Original_EditorHooksBeforeAccess ==
  \A t \in Tasks :
    \A i, j \in 1..Len(tasks[t].log) :
      i < j => ClaimedRank(tasks[t].log[i]) <= ClaimedRank(tasks[t].log[j])

\* C4 amended: the steps of one promise() call start in the order locale
\* hoisting, sanitization, the field's own after-read hooks, access
\* predicate, default value, population enqueue, recursion; the rich text
\* editor's after-read hooks run last, after access control, default value
\* and population enqueue; a step is awaited before the next starts.
C4_StepsInOrderEditorHooksLast ==
  \A t \in Tasks :
    /\ \A i, j \in 1..Len(tasks[t].log) :
         i < j => CodeRank(tasks[t].log[i]) <= CodeRank(tasks[t].log[j])
    /\ tasks[t].inflight # {} => tasks[t].pc \in {"hookAwait", "rtHookAwait"}

\* a rich text field whose field hook, access predicate, default value and
\* editor hook have all run in one call
C4_Witness ==
  \E t \in Tasks :
    /\ Completed(t)
    /\ \A step \in {"sanitize", "hook", "access", "default", "editorHook"} :
         \E i \in 1..Len(tasks[t].log) : tasks[t].log[i] = step

IsFieldHookCall(e) == e.chain = "hookAwait"
\* the settled invocations of the field's own hooks by call t, in order
FieldHookCalls(t) == SelectSeq(tasks[t].hookLog, IsFieldHookCall)

\* C5: the after-read hooks of a field run in declared order, one at a time:
\* hook i+1 is invoked only when hook i has settled and its defined result has
\* been written, and receives the slot's content of that moment; for
\* [h1 returns 'a', h2 returns value.toUpperCase()] the slot ends as 'A'.
C5_HooksRunInDeclaredOrder ==
  \A t \in Tasks :
    ~FieldOf(t).localized =>
      LET calls == FieldHookCalls(t)
      IN /\ \A j \in 1..Len(calls) : calls[j].i = j
         /\ \A j \in 2..Len(calls) :
              calls[j].value =
                IF Defined(calls[j - 1].ret) THEN calls[j - 1].ret
                                             ELSE calls[j - 1].value
         /\ tasks[t].pc = "hookAwait" =>
              /\ Len(calls) = tasks[t].hi - 1
              /\ tasks[t].arg["*"] = Slot(t)
         /\ ( /\ FieldOf(t).hooks = <<"retA", "upper">>
              /\ Len(calls) = 2
              /\ tasks[t].pc = "access" ) => Slot(t) = Str("A")

\* the chain [h1, h2] has run on a stored 'x' and the call has completed
C5_Witness ==
  \E t \in Tasks :
    /\ FieldOf(t).hooks = <<"retA", "upper">>
    /\ Len(FieldHookCalls(t)) = 2
    /\ FieldHookCalls(t)[1].value = Str("x")
    /\ Completed(t)
    /\ Slot(t) = Str("A")

\* the last settled hook invocation of call t
LastCall(t) == tasks'[t].hookLog[Len(tasks'[t].hookLog)]

\* C6: when a hook invocation settles with undefined, the slot (per-locale:
\* that locale's entry) holds afterwards what it held before; when it settles
\* with a defined value (null, '', 0 and false included) the slot or the
\* locale's entry holds that value.  The field's hooks and the editor's.
C6_UndefinedMeansNoChange ==
  [][\A t \in Tasks :
       Len(tasks'[t].hookLog) > Len(tasks[t].hookLog) =>
         IF LastCall(t).key = "*"
           THEN Stored(heap', tasks[t].sib, FieldOf(t).name) =
                  IF Defined(LastCall(t).ret)
                    THEN LastCall(t).ret
                    ELSE StoredSlot(t)
           ELSE /\ StoredSlot(t) = Stored(heap', tasks[t].sib, FieldOf(t).name)
                /\ heap'[Slot(t).n][LastCall(t).key] =
                     IF Defined(LastCall(t).ret)
                       THEN LastCall(t).ret
                       ELSE heap[Slot(t).n][LastCall(t).key]]_vars

\* a hook has returned 0 and the slot holds 0; the chain has ended
C6_Witness ==
  \E t \in Tasks :
    /\ tasks[t].pc = "access"
    /\ Len(tasks[t].hookLog) = 1
    /\ tasks[t].hookLog[1].ret = Num(0)
    /\ tasks[t].hookLog[1].value = Str("x")
    /\ StoredSlot(t) = Num(0)

\* C7 as claimed: with triggerHooks false no after-read hook is invoked,
\* neither a field's nor a rich text editor's.
C7_Original_NoHookAtAll ==
  ~args.triggerHooks => \A t \in Tasks : tasks[t].hookLog = <<>> /\ tasks[t].inflight = {}

\* C7 amended: with triggerHooks false no field-level field.hooks.afterRead
\* hook is invoked and no slot is changed by one; the afterRead hooks of a
\* rich text field's editor are invoked all the same.
C7_NoFieldHookWhenDisabled ==
  ~args.triggerHooks =>
    \A t \in Tasks :
      /\ FieldHookCalls(t) = <<>>
      /\ tasks[t].pc \notin {"hookNext", "hookAwait"}
      /\ \A i \in 1..Len(tasks[t].log) : tasks[t].log[i] # "hook"
      /\ Completed(t) /\ FieldOf(t).type = "richText" /\ RunsEditorHooks(FieldOf(t)) =>
           \E i \in 1..Len(tasks[t].log) : tasks[t].log[i] = "editorHook"

\* hooks are disabled, and the call for a rich text field that has field
\* hooks has completed after its editor's hook changed the slot
C7_Witness ==
  /\ ~args.triggerHooks
  /\ \E t \in Tasks :
       /\ FieldOf(t).hooks # <<>>
       /\ FieldOf(t).type = "richText"
       /\ Completed(t)
       /\ StoredSlot(t) = Str("h")

\* the population tasks call t has enqueued
PopsOf(t) == {p \in 1..Len(pops) : pops[p].by = t}
\* positions of a call after its population step
AfterPopulate == {"recurse", "recursing", "rtHookNext", "rtHookAwait", "done"}

C9_OnePopulationTaskPerReference ==
  /\ \A t \in Tasks :
       Cardinality(PopsOf(t)) =
         IF /\ tasks[t].pc \in AfterPopulate
            /\ fieldAffectsData(FieldOf(t))
            /\ FieldOf(t).type \in RefTypes
           THEN 1 ELSE 0
  /\ Len(populationPromises) = Len(pops)
  /\ \A i \in 1..Len(populationPromises) :
       populationPromises[i] = [kind |-> "population", id |-> i]
  /\ \A i \in 1..Len(fieldPromises) :
       fieldPromises[i].kind = "field" /\ fieldPromises[i].id \in Tasks

\* a denied reference field whose call completed with its one task enqueued
C9_Witness ==
  \E t \in Tasks :
    /\ tasks[t].denied
    /\ FieldOf(t).type \in RefTypes
    /\ Completed(t)
    /\ Cardinality(PopsOf(t)) = 1

\* the field whose promise() call issued call n
ParentField(n) == FieldOf(tasks[n].parent)

\* C10 as claimed: recursion is issued without waiting for the container
\* field's own hook chain: the nested calls of a container whose hook chain
\* runs are made while that chain is still unsettled.
C10_Original_NestedStartsBeforeParentHooksSettle ==
  \A n \in Tasks :
    ( /\ tasks[n].parent # 0
      /\ fieldAffectsData(ParentField(n))
      /\ RunsFieldHooks(ParentField(n)) ) =>
        tasks[n].parentPc \in {"hooks", "hookNext", "hookAwait"}

\* C10 amended: recursion into a container field's nested fields is issued
\* only after that field's own hook chain has settled (and after its access
\* check and default value): every nested call is made from the traversal
\* switch, when every hook of the parent has run.
C10_NestedStartsAfterParentHooks ==
  \A n \in Tasks :
    tasks[n].parent # 0 =>
      /\ tasks[n].parentPc = "recursing"
      /\ tasks[tasks[n].parent].pc \in {"recursing", "done", "rejected"}
      /\ tasks[tasks[n].parent].inflight = {}
      /\ ( fieldAffectsData(ParentField(n)) /\ RunsFieldHooks(ParentField(n)) ) =>
           tasks[n].parentHooks = Len(ParentField(n).hooks)

\* a nested field's hook has run in a container whose two hooks ran first
C10_Witness ==
  \E n \in Tasks :
    /\ tasks[n].parent # 0
    /\ tasks[n].parentHooks = 2
    /\ tasks[n].hookLog # <<>>
    /\ Completed(n)

\* C11: when hoisting applies, the hoisted value is the fallback locale's
\* value if fallbackLocale is set and is not locale, that value is truthy, and
\* the primary value is '', null or absent (text, textarea) or null or absent
\* (every other type); in every other case it is the primary value
\* siblingValue[locale].  An empty string falls back for text fields only.
C11_FallbackRule ==
  [][\A t \in Tasks :
       (tasks[t].pc = "hoist" /\ tasks'[t].hoisted) =>
         LET primary == Get(heap, Slot(t), args.locale)
             fallback == Get(heap, Slot(t), args.fallbackLocale)
             textLike == FieldOf(t).type \in {"text", "textarea"}
             empty == IF textLike THEN {Str(""), Null, Undef} ELSE {Null, Undef}
             substitutes == /\ args.fallbackLocale \notin {"none", args.locale}
                            /\ Truthy(fallback)
                            /\ primary \in empty
         IN Read(heap', tasks[t].sib, FieldOf(t).name) =
              IF substitutes THEN fallback ELSE primary]_vars

\* the same locale map { en: '', de: 'y' } hoisted with fallback locale de:
\* the textarea field holds 'y', the number field holds ''
C11_Witness ==
  /\ args.fallbackLocale = "de"
  /\ \E t, n \in Tasks :
       /\ FieldOf(t).type = "textarea"
       /\ FieldOf(n).type = "number"
       /\ tasks[t].hoisted
       /\ tasks[n].hoisted
       /\ Completed(t)
       /\ Completed(n)
       /\ heap[2]["en"] = Str("")
       /\ heap[3]["en"] = Str("")
       /\ StoredSlot(t) = Str("y")
       /\ StoredSlot(n) = Str("")

\* an object keyed by locale codes
IsLocaleMap(h, v) ==
  /\ v.k = "obj"
  /\ EntryKeys(h, v) # {}
  /\ EntryKeys(h, v) \subseteq {Locales[i] : i \in 1..Len(Locales)}
\* the hoisting step of call t is taken
HoistingStepOf(t) == tasks[t].pc = "hoist" /\ tasks'[t].pc = "sanitize"
\* the conditions of hoisting, as the claim lists them
HoistingApplies(t) ==
  /\ args.flattenLocales
  /\ fieldAffectsData(FieldOf(t))
  /\ Slot(t).k \in {"obj", "arr"}
  /\ FieldOf(t).localized
  /\ args.locale # "all"
  /\ args.localization

\* C12 as claimed: hoisting applies exactly when flattenLocales is true, the
\* field is data-bearing, its slot holds a non-null object, the field is
\* localized, locale is not 'all' and localization is enabled; and after the
\* hoisting step, whenever flattening is requested and locale is not 'all',
\* the slot of a localized field never holds a locale map.
C12_Original_NeverLocaleMapWhenFlattening ==
  [][\A t \in Tasks :
       HoistingStepOf(t) =>
         /\ tasks'[t].hoisted <=> HoistingApplies(t)
         /\ ( /\ args.flattenLocales
              /\ args.locale # "all"
              /\ FieldOf(t).localized ) =>
                ~IsLocaleMap(heap', Read(heap', tasks[t].sib, FieldOf(t).name))]_vars

\* C12 amended: hoisting applies exactly when the six conditions hold, and
\* is the only change of the step; after the hoisting step, whenever
\* flattening is requested, locale is not 'all' and the configuration has
\* localization enabled, the slot of a localized field holds a single value
\* and never a locale map.  With localization disabled a stored locale map
\* stays in the slot.
C12_HoistsExactlyWhenAllHold ==
  [][\A t \in Tasks :
       HoistingStepOf(t) =>
         /\ tasks'[t].hoisted <=> HoistingApplies(t)
         /\ ~HoistingApplies(t) => heap' = heap
         /\ ( /\ args.flattenLocales
              /\ args.locale # "all"
              /\ args.localization
              /\ FieldOf(t).localized ) =>
                ~IsLocaleMap(heap', Read(heap', tasks[t].sib, FieldOf(t).name))]_vars

\* the locale map { en: 'x', de: 'y' } of a localized field has been replaced
\* by 'x'
C12_Witness ==
  \E t \in Tasks :
    /\ tasks[t].hoisted
    /\ tasks[t].pc = "sanitize"
    /\ FieldOf(t).localized
    /\ args.localization
    /\ IsLocaleMap(heap, Obj(2))
    /\ heap[2]["en"] = Str("x")
    /\ StoredSlot(t) = Str("x")

\* the step is one of promise(), not the run of a population task
PromiseStep == \A p \in 1..Len(pops) : pops'[p] = pops[p]
\* the slot of call t's field is not after the step what it was before
SlotChanges(t) ==
  /\ fieldAffectsData(FieldOf(t))
  /\ Stored(heap', tasks[t].sib, FieldOf(t).name) # StoredSlot(t)
\* the change is one of the four the claim allows: sanitization, a hook's
\* defined return value, access denial, default value
ChangeOfTheFour(t) ==
  \/ tasks[t].pc = "sanitize"
  \/ /\ tasks[t].pc \in {"hookAwait", "rtHookAwait"}
     /\ Len(tasks'[t].hookLog) > Len(tasks[t].hookLog)
     /\ Defined(LastCall(t).ret)
  \/ tasks[t].pc = "accessAwait" /\ tasks'[t].denied
  \/ tasks[t].pc = "defaultAwait"

\* C13 as claimed: promise() changes the slot of a non-localized field only
\* through sanitization, a hook's defined return value, access denial or
\* default-value substitution.
C13_Original_OnlyFourWaysToChange ==
  [][\A t \in Tasks :
       (PromiseStep /\ ~FieldOf(t).localized /\ SlotChanges(t)) =>
         ChangeOfTheFour(t)]_vars

\* C13 amended: promise() changes the slot of a non-localized field only
\* through the removal of a hidden field (showHiddenFields false), type
\* sanitization, a hook's defined return value, access denial, default-value
\* substitution, or the coercion of an array or blocks slot to [] in the
\* traversal step; in a call where none of these applies the slot is the
\* same before and after.
C13_SlotChangesOnlyByNamedSteps ==
  [][\A t \in Tasks :
       (PromiseStep /\ ~FieldOf(t).localized /\ SlotChanges(t)) =>
         \/ ChangeOfTheFour(t)
         \/ /\ tasks[t].pc = "hidden"
            /\ FieldOf(t).hidden
            /\ ~args.showHiddenFields
            /\ Stored(heap', tasks[t].sib, FieldOf(t).name) = Absent
         \/ /\ tasks[t].pc = "recurse"
            /\ FieldOf(t).type \in {"array", "blocks"}
            /\ Stored(heap', tasks[t].sib, FieldOf(t).name) = Arr(<<>>)]_vars

\* a hidden field without hooks, access.read or default value: its stored
\* value has been removed and the call has completed
C13_Witness ==
  \E t \in Tasks :
    /\ tasks[t].removed
    /\ ~FieldOf(t).localized
    /\ FieldOf(t).hooks = <<>>
    /\ ~FieldOf(t).access
    /\ ~Defined(FieldOf(t).dflt)
    /\ Completed(t)
    /\ StoredSlot(t) = Absent

\* C14: the default is assigned to the slot if and only if, hooks and access
\* control having run, the slot is still undefined, field.defaultValue is
\* defined and access control did not deny the field; a slot that holds a
\* defined value (null, '', 0 and false included) is never overwritten by it.
C14_DefaultOnlyForUndefinedSlot ==
  [][\A t \in Tasks :
       /\ (tasks[t].pc = "default" /\ tasks'[t].pc \in {"defaultAwait", "populate"}) =>
            /\ tasks'[t].defaultInvoked <=>
                 /\ TypeofUndefined(Slot(t))
                 /\ Defined(FieldOf(t).dflt)
                 /\ ~tasks[t].denied
            /\ tasks'[t].defaultInvoked <=> tasks'[t].pc = "defaultAwait"
            /\ heap' = heap
       /\ (tasks[t].pc = "defaultAwait" /\ tasks'[t].pc # "defaultAwait") =>
            /\ TypeofUndefined(Slot(t))
            /\ ~tasks[t].denied
            /\ Stored(heap', tasks[t].sib, FieldOf(t).name) = FieldOf(t).dflt]_vars

\* a field with a default whose hook returned false: the call has completed
\* with false in the slot and the default was not computed
C14_Witness ==
  \E t \in Tasks :
    /\ Defined(FieldOf(t).dflt)
    /\ Len(tasks[t].hookLog) = 1
    /\ tasks[t].hookLog[1].ret = False
    /\ ~tasks[t].denied
    /\ ~tasks[t].defaultInvoked
    /\ Completed(t)
    /\ StoredSlot(t) = False

\* C15: the sanitization of a point field rewrites a stored value whose
\* coordinates is an array of exactly two elements to that array, and sets
\* the slot to undefined for every other stored value (coordinates missing,
\* not an array, of another length; the value null, undefined or of another
\* type); it raises no error.
C15_PointSanitization ==
  [][\A t \in Tasks :
       ( /\ FieldOf(t).type = "point"
         /\ tasks[t].pc = "sanitize"
         /\ tasks'[t].pc # "sanitize" ) =>
           LET stored == StoredSlot(t)
               coordinates == IF stored.k = "obj"
                                THEN heap[stored.n]["coordinates"]
                                ELSE Absent
               pair == coordinates.k = "arr" /\ Len(coordinates.rows) = 2
           IN /\ tasks'[t].pc = "hooks"
              /\ Stored(heap', tasks[t].sib, FieldOf(t).name) =
                   IF pair THEN coordinates ELSE Undef]_vars

\* { coordinates: [1, 2], type: 'Point' } has been rewritten to [1, 2]
C15_Witness ==
  \E t \in Tasks :
    /\ FieldOf(t).type = "point"
    /\ FieldOf(t).hooks = <<>>
    /\ Completed(t)
    /\ Len(heap) > 1
    /\ heap[2]["type"] = Str("Point")
    /\ heap[2]["coordinates"] = Arr(<<1, 2>>)
    /\ StoredSlot(t) = Arr(<<1, 2>>)

\* C16: an array field, or a blocks field, whose slot at the traversal step
\* holds null or a value that is neither an array nor an object holds []
\* from then on, and when promise() has completed.
C16_NonArraySlotBecomesEmptyArray ==
  \A t \in Tasks :
    ( /\ FieldOf(t).type \in {"array", "blocks"}
      /\ tasks[t].pc \in {"recursing", "done"}
      /\ tasks[t].seen.k \notin {"arr", "obj"} ) =>
        StoredSlot(t) = Arr(<<>>)

\* an array or blocks field stored as null, left alone by hooks and access
\* control, holds [] when its call has completed
C16_Witness ==
  \E t \in Tasks :
    /\ FieldOf(t).type \in {"array", "blocks"}
    /\ tasks[t].seen = Null
    /\ tasks[t].hookLog = <<>>
    /\ ~tasks[t].denied
    /\ Completed(t)
    /\ StoredSlot(t) = Arr(<<>>)

\* the rows of a blocks value whose blockType is the slug of no block
Unmatched(t) ==
  {row \in {tasks[t].seen.rows[i] : i \in 1..Len(tasks[t].seen.rows)} :
     /\ row # 0
     /\ heap[row]["blockType"] \notin
          {Str(FieldOf(t).blocks[j].slug) : j \in 1..Len(FieldOf(t).blocks)}}
\* the rows whose blockType is the slug of a block
Matched(t) ==
  {row \in {tasks[t].seen.rows[i] : i \in 1..Len(tasks[t].seen.rows)} :
     /\ row # 0
     /\ row \notin Unmatched(t)}

\* C17: a blocks row whose blockType is the slug of no configured block is
\* left untouched: no nested traversal is issued for it, it stays in the rows
\* sequence at its index with its content, and the other rows are traversed
\* with the fields of their block.
C17_UnmatchedBlockRowUntouched ==
  \A t \in Tasks :
    ( /\ FieldOf(t).type = "blocks"
      /\ tasks[t].pc \in {"recursing", "done"}
      /\ tasks[t].seen.k = "arr" ) =>
        /\ StoredSlot(t) = tasks[t].seen
        /\ \A row \in Unmatched(t) :
             /\ heap[row] = With(EmptyObj, "blockType", Str("unknown"))
             /\ \A n \in Tasks : tasks[n].sib # row
             /\ \A i \in 1..Len(stack) : stack[i].sib # row
        /\ Completed(t) =>
             \A row \in Matched(t) :
               {tasks[n].f : n \in {m \in Tasks : tasks[m].sib = row}} =
                 {"heading"}

\* rows [unknown, hero]: the call has completed, the hero row's heading has
\* been read and the unknown row is in place
C17_Witness ==
  \E t, n \in Tasks :
    /\ FieldOf(t).type = "blocks"
    /\ Completed(t)
    /\ tasks[t].seen.k = "arr"
    /\ Unmatched(t) = {2}
    /\ tasks[n].parent = t
    /\ tasks[n].sib = 3
    /\ Completed(n)
    /\ StoredSlot(t).rows[1] = 2

\* C18: a rich text field whose editor is missing or is still a function
\* makes promise() reject, and before anything else is done for the field: no
\* after-read hook, access predicate or default value is invoked for it and
\* the call enqueues no population task.
C18_MissingEditorFailsFast ==
  \A t \in Tasks :
    (FieldOf(t).type = "richText" /\ FieldOf(t).editor # "ok") =>
      /\ tasks[t].pc \in {"hidden", "hoist", "sanitize", "rejected"}
      /\ tasks[t].hookLog = <<>>
      /\ tasks[t].inflight = {}
      /\ \A i \in 1..Len(tasks[t].log) : tasks[t].log[i] = "hoist"
      /\ ~tasks[t].accessInvoked
      /\ ~tasks[t].defaultInvoked
      /\ PopsOf(t) = {}

\* the call has rejected for a rich text field with hooks, access.read and a
\* default value whose editor is a function, hooks and access control on
C18_Witness ==
  \E t \in Tasks :
    /\ FieldOf(t).type = "richText"
    /\ FieldOf(t).editor = "function"
    /\ FieldOf(t).hooks # <<>>
    /\ FieldOf(t).access
    /\ Defined(FieldOf(t).dflt)
    /\ args.triggerHooks
    /\ InvokesAccess(FieldOf(t))
    /\ tasks[t].pc = "rejected"
    /\ callerPc = "failed"

\* every locale is asked for: locale is 'all' or nothing is flattened
AllLocales == args.locale = "all" \/ ~args.flattenLocales
\* the field of call t is localized, every locale is asked for and the slot
\* holds an object
FansOut(t) == FieldOf(t).localized /\ AllLocales /\ Slot(t).k = "obj"
\* the keys a hook is to be invoked for: the locale keys, or the whole slot
TargetKeys(t) == IF FansOut(t) THEN EntryKeys(heap, Slot(t)) ELSE {"*"}
\* the settled invocations of hook i of a chain by call t
CallsOf(t, chain, i) ==
  {j \in 1..Len(tasks[t].hookLog) :
     tasks[t].hookLog[j].chain = chain /\ tasks[t].hookLog[j].i = i}
\* what the document holds where an invocation for key writes
Target(t, key) == IF key = "*" THEN Slot(t) ELSE Get(heap, Slot(t), key)

C20_RejectsOnlyForMissingEditor ==
  \A t \in Tasks :
    tasks[t].pc = "rejected" =>
      FieldOf(t).type = "richText" /\ FieldOf(t).editor # "ok"

\* the call that issued call n
ParentOf(n) == tasks[n].parent
\* call n was issued for a group, a named tab, an array row or a blocks row
IssuedForContainer(n) ==
  /\ ParentOf(n) # 0
  /\ \/ ParentField(n).type \in {"group", "array", "blocks"}
     \/ ParentField(n).type = "tab" /\ tabHasName(ParentField(n))
\* the sibling container of call n is stored in the slot of the field that
\* issued it: it is the slot's object, or a row of the slot's array or of an
\* array of the slot's locale map
StoredInParent(n) ==
  LET v == StoredSlot(ParentOf(n))
  IN IF ParentField(n).type \in {"array", "blocks"}
       THEN \/ /\ v.k = "arr"
               /\ \E i \in 1..Len(v.rows) : v.rows[i] = tasks[n].sib
            \/ /\ v.k = "obj"
               /\ \E key \in Keys :
                    /\ heap[v.n][key].k = "arr"
                    /\ \E i \in 1..Len(heap[v.n][key].rows) :
                         heap[v.n][key].rows[i] = tasks[n].sib
       ELSE v = Obj(tasks[n].sib)
\* no object of the document refers to object o
Unreferenced(o) ==
  \A i \in 1..Len(heap) :
    \A key \in Keys :
      /\ heap[i][key] # Obj(o)
      /\ heap[i][key].k = "arr" =>
           \A j \in 1..Len(heap[i][key].rows) : heap[i][key].rows[j] # o

\* C21 as claimed: every nested traversal issued for a group, a named tab, an
\* array row or a blocks row receives a sibling container that is stored in
\* the parent sibling container.
C21_Original_AlwaysByReference ==
  \A n \in Tasks : IssuedForContainer(n) => StoredInParent(n)

\* C21 amended: when the slot holds a non-null object (an array, a locale
\* map) at the traversal step, the nested traversal receives that object (its
\* rows) by reference, and the nested fields' writes are in the parent
\* document; when the slot of a group or named tab is not of type object (the
\* field was denied, a hook put another value) the nested traversal receives
\* a new {} that is stored nowhere, and the nested fields' writes are not in
\* the parent document.
C21_ByReferenceWhenSlotHoldsObject ==
  \A n \in Tasks :
    IssuedForContainer(n) =>
      LET v == StoredSlot(ParentOf(n))
      IN /\ v.k \in {"obj", "arr"} => StoredInParent(n)
         /\ v.k \notin {"obj", "arr", "null"} =>
              /\ tasks[n].sib # 0
              /\ Unreferenced(tasks[n].sib)

\* the hook of a group's nested field has written 'a' into the group's
\* object, which the document holds
C21_Witness ==
  \E n \in Tasks :
    /\ IssuedForContainer(n)
    /\ ParentField(n).type = "group"
    /\ tasks[ParentOf(n)].sib = 1
    /\ Completed(n)
    /\ tasks[n].hookLog # <<>>
    /\ StoredSlot(ParentOf(n)) = Obj(tasks[n].sib)
    /\ heap[tasks[n].sib]["inner"] = Str("a")

\* C22 as claimed: the sanitizer step of a group field leaves an object in
\* its slot, the sanitizer step of a tabs field leaves an object in the slot
\* of every named tab, and a slot that holds an object is left as it is.
C22_SanitizedContainerHoldsObject ==
  [][\A t \in Tasks :
       (tasks[t].pc = "sanitize" /\ tasks'[t].pc = "hooks") =>
         LET f == FieldOf(t)
             named == IF f.type = "group"
                        THEN {f.name}
                        ELSE IF f.type = "tabs"
                               THEN {args.schema[f.fields[i]].name : i \in 1..Len(f.fields)}
                                    \ {""}
                               ELSE {}
         IN \A name \in named :
              /\ Stored(heap', tasks[t].sib, name).k = "obj"
              /\ Stored(heap, tasks[t].sib, name).k = "obj" =>
                   Stored(heap', tasks[t].sib, name) = Stored(heap, tasks[t].sib, name)]_vars

\* C23 as claimed: with showHiddenFields false a data-bearing field marked
\* hidden has no value in the sibling container when the promise() call for
\* it has completed; with showHiddenFields true the hidden-field step removes
\* nothing.
C23_HiddenFieldHasNoValue ==
  \A t \in Tasks :
    (fieldAffectsData(FieldOf(t)) /\ FieldOf(t).hidden) =>
      /\ (~args.showHiddenFields /\ Completed(t)) => TypeofUndefined(StoredSlot(t))
      /\ args.showHiddenFields => ~tasks[t].removed

\* the calls that call t issued through traverseFields
NestedOf(t) == {n \in Tasks : tasks[n].parent = t}
\* the elements of the value an array call saw at its traversal step, each
\* with its index: the rows of the sequence, or the rows of every sequence of
\* the locale map
ElementsSeen(t) ==
  LET v == tasks[t].seen
      indexed(rows) == {<<rows[i], IndexSegment(i - 1)>> : i \in 1..Len(rows)}
  IN IF v.k = "arr"
       THEN indexed(v.rows)
       ELSE IF v.k = "obj" /\ ~tasks[t].hoisted
              THEN UNION {indexed(heap[v.n][key].rows) :
                            key \in {k \in Keys : heap[v.n][k].k = "arr"}}
              ELSE {}

\* C24: every traversal an array field issues is for an element of the
\* sequence in its slot, or of a sequence of the unhoisted locale map in its
\* slot, with instance path = the field's path followed by the element's
\* index and schema path = the field's schema path (no locale in either);
\* when the call has completed every such element has been traversed exactly
\* once, so entries of the map that are not sequences are skipped; and the
\* locale map is left in the slot.
C24_ArrayElementsTraversedOnce ==
  \A t \in Tasks :
    (FieldOf(t).type = "array" /\ tasks[t].pc \in {"recursing", "done"}) =>
      /\ \A n \in NestedOf(t) :
           \E e \in ElementsSeen(t) :
             /\ tasks[n].sib = e[1]
             /\ tasks[n].parentPath = fieldPath(t) \o <<e[2]>>
             /\ tasks[n].parentSchemaPath = fieldSchemaPath(t)
      /\ Completed(t) =>
           \A e \in ElementsSeen(t) :
             Cardinality({n \in NestedOf(t) : tasks[n].sib = e[1]})
               = Len(FieldOf(t).fields)
      /\ (tasks[t].seen.k = "obj" /\ ~tasks[t].hoisted) =>
           StoredSlot(t) = tasks[t].seen

\* an unhoisted localized array whose locale map holds a sequence for en and
\* one for de: the first row of each has been traversed under the path
\* litems.0 and the schema path litems, and the map is still in the slot
C24_Witness ==
  \E t \in Tasks :
    /\ FieldOf(t).type = "array"
    /\ FieldOf(t).localized
    /\ ~tasks[t].hoisted
    /\ Completed(t)
    /\ StoredSlot(t).k = "obj"
    /\ \E n1, n2 \in NestedOf(t) :
         /\ tasks[n1].sib # tasks[n2].sib
         /\ tasks[n1].parentPath = <<"litems", "0">>
         /\ tasks[n2].parentPath = <<"litems", "0">>
         /\ tasks[n1].parentSchemaPath = <<"litems">>
         /\ tasks[n2].parentSchemaPath = <<"litems">>
         /\ Completed(n1)
         /\ Completed(n2)

\* call p is for a row, a collapsible, a tabs field or an unnamed tab
Transparent(p) ==
  \/ FieldOf(p).type \in {"row", "collapsible", "tabs"}
  \/ FieldOf(p).type = "tab" /\ ~tabHasName(FieldOf(p))

\* C25: the calls issued by a row, a collapsible, a tabs field or an unnamed
\* tab are for its fields in declaration order, on the sibling container the
\* issuing call received, under the issuing field's path and schema path; the
\* calls a tabs field issues are for fields of type 'tab'; and when the
\* issuing call has completed every one of its fields has been traversed.
C25_TransparentContainers ==
  \A p \in Tasks :
    Transparent(p) =>
      /\ \A n \in NestedOf(p) :
           /\ tasks[n].sib = tasks[p].sib
           /\ tasks[n].parentPath = fieldPath(p)
           /\ tasks[n].parentSchemaPath = fieldSchemaPath(p)
           /\ tasks[n].f = FieldOf(p).fields[Cardinality({m \in NestedOf(p) : m <= n})]
           /\ FieldOf(p).type = "tabs" => FieldOf(n).type = "tab"
      /\ Completed(p) => Cardinality(NestedOf(p)) = Len(FieldOf(p).fields)

\* a tabs field has traversed its named and then its unnamed tab on the
\* document, both as fields of type 'tab', and the unnamed tab has traversed
\* its field on the document under the empty path
C25_Witness ==
  \E p, n1, n2, n3 \in Tasks :
    /\ FieldOf(p).type = "tabs"
    /\ Completed(p)
    /\ tasks[n1].parent = p
    /\ tasks[n2].parent = p
    /\ n1 < n2
    /\ tabHasName(FieldOf(n1))
    /\ ~tabHasName(FieldOf(n2))
    /\ FieldOf(n2).type = "tab"
    /\ tasks[n2].sib = tasks[p].sib
    /\ tasks[n3].parent = n2
    /\ tasks[n3].sib = tasks[p].sib
    /\ tasks[n3].parentPath = <<>>
    /\ Completed(n3)

\* the keys of the sibling container that belong to the field of call t: its
\* name, and for a tabs field the names of its named tabs
OwnKeys(t) ==
  LET f == FieldOf(t)
  IN IF f.type = "tabs"
       THEN {args.schema[f.fields[i]].name : i \in 1..Len(f.fields)} \ {""}
       ELSE {f.name} \ {""}
\* call t takes the step
Acts(t) == tasks'[t] # tasks[t]

\* C26: a step of promise() for a field (hidden removal, hoisting,
\* sanitization, a hook's write-back, access denial, default substitution,
\* the traversal step with its coercion to []) changes no key of the sibling
\* container but the field's own (for a tabs field: the names of its named
\* tabs), and every change of the document in such a step is made by the
\* call that takes it.
C26_DisjointWrites ==
  [][PromiseStep =>
       /\ \A t \in Tasks :
            (Acts(t) /\ tasks[t].sib # 0) =>
              \A key \in Keys \ OwnKeys(t) :
                heap'[tasks[t].sib][key] = heap[tasks[t].sib][key]
       /\ heap' # heap => \E t \in Tasks : Acts(t)]_vars

\* two fields of the same container: one was denied and deleted, the hook of
\* the other wrote 'a' into its own slot, and each slot holds what its own
\* call left there
C26_Witness ==
  \E t1, t2 \in Tasks :
    /\ tasks[t1].sib = tasks[t2].sib
    /\ FieldOf(t1).name = "author"
    /\ FieldOf(t2).name = "other"
    /\ tasks[t1].denied
    /\ Completed(t1)
    /\ Completed(t2)
    /\ tasks[t2].hookLog # <<>>
    /\ StoredSlot(t1) = Absent
    /\ StoredSlot(t2) = Str("a")

\* call p is for a group or a named tab
NamedContainer(p) ==
  \/ FieldOf(p).type = "group"
  \/ FieldOf(p).type = "tab" /\ tabHasName(FieldOf(p))
\* the last invocation of a hook of call p
LastHook(p) == tasks[p].hookLog[Len(tasks[p].hookLog)]

\* C27: a call issued by a group or a named tab is issued when the field's
\* hook chain has finished, on the object the slot holds at the traversal
\* step; when the last hook of the chain returned an object and access was
\* not denied, that is the object the hook returned, and the values the
\* nested fields write are in it.
C27_NestedFieldsSeePostHookValue ==
  \A n \in Tasks :
    (tasks[n].parent # 0 /\ NamedContainer(tasks[n].parent)) =>
      LET p == tasks[n].parent
      IN /\ tasks[n].parentHooks = Len(tasks[p].hookLog)
         /\ RunsFieldHooks(FieldOf(p)) =>
              Len(tasks[p].hookLog) = Len(FieldOf(p).hooks)
         /\ tasks[p].seen.k = "obj" => tasks[n].sib = tasks[p].seen.n
         /\ ( /\ tasks[p].hookLog # <<>>
              /\ LastHook(p).ret.k = "obj"
              /\ ~tasks[p].denied ) =>
              /\ tasks[n].sib = LastHook(p).ret.n
              /\ (Completed(n) /\ tasks[n].hookLog # <<>>) =>
                   heap[LastHook(p).ret.n][FieldOf(n).name]
                     = tasks[n].hookLog[Len(tasks[n].hookLog)].ret

\* a group that held an object when promise() was called, and whose hook put
\* another object in the slot: the nested field's hook wrote 'a' into the new
\* object, and the object the group held before is as it was
C27_Witness ==
  \E n \in Tasks :
    /\ tasks[n].parent # 0
    /\ FieldOf(tasks[n].parent).type = "group"
    /\ tasks[tasks[n].parent].entry = Obj(2)
    /\ StoredSlot(tasks[n].parent) = HookObject
    /\ tasks[n].sib = HookObject.n
    /\ Completed(n)
    /\ heap[HookObject.n]["inner"] = Str("a")
    /\ heap[2]["inner"] = Str("x")

\* resetPassword call c has ended without a token
Failed(c) == reset.calls[c].pc = "failed"
\* call c has done nothing that changes the user or signs anybody in
ChangedNothing(c) ==
  /\ ~reset.calls[c].passwordSet
  /\ ~reset.calls[c].saved
  /\ ~reset.calls[c].signed
  /\ ~reset.calls[c].cookie
  /\ ~reset.calls[c].hookAfter

\* C28: a resetPassword call whose data lacks a token or a password has
\* thrown 'Missing required data.' with neither the beforeResetPassword hook
\* called nor a lookup made; a call whose lookup found no user with the token
\* and an expiration later than now has thrown 'Token is either invalid or
\* has expired.'; and a call that has thrown either has set no password,
\* saved no user, signed no JWT, written no cookie and not called
\* afterResetPassword.
C28_FailsWithoutChange ==
  \A c \in Calls :
    LET r == reset.calls[c]
    IN /\ (r.data.token = "absent" \/ r.data.password = "absent") =>
            /\ Failed(c)
            /\ r.result = "Missing required data."
            /\ ~r.hookBefore
            /\ ~r.lookedUp
       /\ r.matched = "no" =>
            /\ Failed(c)
            /\ r.result = "Token is either invalid or has expired."
       /\ Failed(c) => ChangedNothing(c)
       /\ ( /\ r.lookedUp
            /\ r.pc # "findOne"
            /\ (r.data.token # "t1" \/ r.asked >= TokenExpiration) ) =>
            r.matched = "no"

\* a call without a password has thrown before the hook, a call with a wrong
\* token and a call made when the token had expired have thrown after the
\* lookup, and the stored user is as it was
C28_Witness ==
  /\ reset.user = StoredUser
  /\ reset.beforeResetPassword
  /\ \E c \in Calls :
       /\ reset.calls[c].data.password = "absent"
       /\ reset.calls[c].result = "Missing required data."
  /\ \E c \in Calls :
       /\ reset.calls[c].data.token = "t1"
       /\ reset.calls[c].data.password = "new"
       /\ reset.calls[c].asked = TokenExpiration
       /\ reset.calls[c].result = "Token is either invalid or has expired."

\* the calls made with token tok that have set a password or returned a JWT
Succeeded(tok) ==
  {c \in Calls : /\ reset.calls[c].data.token = tok
                 /\ reset.calls[c].data.password # "absent"
                 /\ (reset.calls[c].passwordSet \/ reset.calls[c].result = "token")}

\* C29 as claimed: among the resetPassword calls made with the same token at
\* most one sets the password and returns a JWT, and every other such call
\* that has ended has failed with 'Token is either invalid or has expired.'
C29_TokenResetsAtMostOnce ==
  \A tok \in {"t1", "bad"} :
    /\ Cardinality(Succeeded(tok)) <= 1
    /\ \A c \in Calls :
         ( /\ reset.calls[c].data.token = tok
           /\ reset.calls[c].data.password # "absent"
           /\ c \notin Succeeded(tok)
           /\ reset.calls[c].pc \in {"failed", "done"} ) =>
           reset.calls[c].result = "Token is either invalid or has expired."

====
